---- MODULE Spec2Model ----
(***************************************************************************)
(* Model of the custom-provider agent of claude-mem (src/sdk/parser.ts):   *)
(* the bounded-retry HTTP fetcher (fetchWithTimeout,                       *)
(* fetchWithTimeoutAndRetry), the history truncation policy                *)
(* (truncateHistory), the response decoders (extractResponseText, the two  *)
(* SSE decoders, the four query functions), the session driver            *)
(* (CustomAgent.startSession) and the JSON response parsers                *)
(* (extractBalancedJson, preprocessJsonResponse, parseObservationsJson,    *)
(* parseSummaryJson), each with a specification of its own.                *)
(*                                                                         *)
(* Granularity of the fetcher: JavaScript runs every callback to           *)
(* completion and drains the microtask queue before the next timer or I/O  *)
(* callback.  An action is therefore one event (a timer firing, the        *)
(* response headers or the body arriving, the network failing, the session *)
(* owner aborting the external signal) together with the synchronous code  *)
(* that event resumes, up to the next await.  Time is in milliseconds      *)
(* since the start of the current attempt.                                 *)
(***************************************************************************)
EXTENDS Integers, Sequences, FiniteSets, TLC

VARIABLES
    \* ---- fetchWithTimeoutAndRetry / fetchWithTimeout ----
    config,            \* [firstTokenTimeoutSeconds, totalTimeoutSeconds]
    maxRetries,        \* parameter maxRetries
    signalGiven,       \* abortSignal !== undefined
    signalAborted,     \* externalSignal.aborted
    signalListener,    \* onExternalAbort is registered on externalSignal
    pc,                \* position of the call
    attempt,           \* loop variable of the retry loop
    abortReason,       \* 'timeout' | 'external' | "null"
    controllerAborted, \* controller.signal.aborted of the current attempt
    totalTimer,        \* [armed, at]
    firstTokenTimer,   \* [armed, at]
    net,               \* what the network does with the current request
    now,               \* ms since the current attempt's fetch() call
    firedTimer,        \* which timer aborted the current attempt
    fetchCalls,        \* calls of the global fetch()
    requestsIssued,    \* HTTP requests put on the wire
    lastError,         \* lastError of the retry loop
    outcome,           \* what the call returned or threw
    attemptLog,        \* one record per finished attempt
    cancel,            \* when the external signal fired
    \* ---- truncateHistory ----
    history,           \* session.conversationHistory
    limits,            \* [maxContextMessages, maxTokens]
    truncatedHistory,  \* the list handed to the provider
    tpc,               \* "input" | "done"
    \* ---- response decoders (pure functions) ----
    arg,               \* the argument of the call
    ret,               \* what the call returned
    ppc,               \* "input" | "done"
    \* ---- CustomAgent.startSession ----
    spc,               \* position of startSession
    customConfig,      \* getCustomConfig(): [configured, protocol, streaming]
    fallbackAgent,     \* this.fallbackAgent is set
    memorySessionId,   \* session.memorySessionId ("null" when unset)
    dbMemorySessionId, \* memory_session_id of the session's database row
    lastPromptNumber,  \* session.lastPromptNumber
    activeMode,        \* ModeManager.getInstance().getActiveMode()
    mode,              \* the const mode of startSession (line 1355)
    pendingMessages,   \* what getMessageIterator has still to yield
    processingMessageIds, \* session.processingMessageIds
    resetToPending,    \* the calls of pendingStore.resetToPending, in order
    confirmProcessed,  \* the calls of pendingStore.confirmProcessed, in order
    fallbackStartSession, \* the calls of fallbackAgent.startSession
    turn,              \* the turn under way: [n, kind, id]
    response,          \* what queryJsonMultiTurn returned for the turn
    sessionError,      \* what startSession threw
    trace,             \* the steps of the turns, in order
    \* ---- the session store (services/sqlite/sessions/create.ts) ----
    sdk_sessions,      \* the rows of table sdk_sessions, by id
    observations,      \* memory_session_id of the rows of table observations
    session_summaries, \* memory_session_id of the rows of session_summaries
    dbCall,            \* the last call on the store and how it ended
    returnedIds        \* what createSDKSession returned, by contentSessionId

fetchVars ==
    <<config, maxRetries, signalGiven, signalAborted, signalListener, pc,
      attempt, abortReason, controllerAborted, totalTimer, firstTokenTimer,
      net, now, firedTimer, fetchCalls, requestsIssued, lastError, outcome,
      attemptLog, cancel>>

truncVars ==
    <<history, limits, truncatedHistory, tpc>>

decVars ==
    <<arg, ret, ppc>>

sessVars ==
    <<spc, customConfig, fallbackAgent, memorySessionId, dbMemorySessionId,
      lastPromptNumber, activeMode, mode, pendingMessages,
      processingMessageIds, resetToPending, confirmProcessed,
      fallbackStartSession, turn, response, sessionError, trace>>

dbVars ==
    <<sdk_sessions, observations, session_summaries, dbCall, returnedIds>>

\* Everything the fetcher does not touch.
nonFetchVars ==
    <<truncVars, decVars, sessVars, dbVars>>

vars ==
    <<fetchVars, truncVars, decVars, sessVars, dbVars>>

----------------------------------------------------------------------------
(* Constants of the program and the inputs the model draws from.           *)

\* maxRetries: number = 3
DefaultMaxRetries ==
    3

\* CHARS_PER_TOKEN_ESTIMATE = 4
CHARS_PER_TOKEN_ESTIMATE ==
    4

\* config.firstTokenTimeoutSeconds / config.totalTimeoutSeconds (0 = disabled)
TimeoutSecondsChoices ==
    {0, 1, 10}

\* Arrival times (ms after the fetch() call) of headers and of the full body.
Delays ==
    {0, 1500, 12000}

\* What the network does with one request:
\*   ok / non2xx : headers at hAt, body complete at bAt
\*   neterrH     : fetch() rejects with a network error at hAt
\*   neterrB     : headers at hAt, the body read fails at bAt
\*   stallH      : no response ever
\*   stallB      : headers at hAt, the body never completes
NetPlans ==
    {p \in [kind : {"ok", "non2xx", "neterrB"}, hAt : Delays, bAt : Delays] :
        p.hAt <= p.bAt}
    \cup {[kind |-> "neterrH", hAt |-> h, bAt |-> h] : h \in Delays}
    \cup {[kind |-> "stallB", hAt |-> h, bAt |-> h] : h \in Delays}
    \cup {[kind |-> "stallH", hAt |-> 0, bAt |-> 0]}

NoPlan ==
    [kind |-> "none", hAt |-> 0, bAt |-> 0]

\* response.status and the drained body of a response
ResponseStatus(plan) ==
    IF plan.kind = "ok" THEN 200 ELSE 500

ResponseText(plan) ==
    IF plan.kind = "ok" THEN "completion json" ELSE "upstream error text"

\* response.ok
ResponseOk(status) ==
    status >= 200 /\ status <= 299

Disarmed ==
    [armed |-> FALSE, at |-> 0]

Armed(ms) ==
    [armed |-> TRUE, at |-> ms]

NoOutcome ==
    [kind |-> "pending", error |-> "none", ok |-> FALSE, status |-> 0,
     body |-> ""]

Returned(plan) ==
    [kind |-> "result", error |-> "none",
     ok |-> ResponseOk(ResponseStatus(plan)),
     status |-> ResponseStatus(plan), body |-> ResponseText(plan)]

Threw(err) ==
    [kind |-> "error", error |-> err, ok |-> FALSE, status |-> 0, body |-> ""]

NoCancel ==
    [fired |-> FALSE, at |-> "never", calls |-> 0]

\* No decoder call is under way.
DecodersOff ==
    /\ arg = <<>>
    /\ ret = <<>>
    /\ ppc = "off"

\* The session store is not in use.
DatabaseOff ==
    /\ sdk_sessions = <<>>
    /\ observations = <<>>
    /\ session_summaries = <<>>
    /\ dbCall = <<>>
    /\ returnedIds = <<>>

\* No turn of a session: what turn and response hold between turns.
NoTurn ==
    [n |-> 0, kind |-> "none", id |-> 0]

NoResponse ==
    [kind |-> "none", content |-> <<>>, error |-> "none", status |-> 0,
     text |-> <<>>]

\* No session is under way.
SessionOff ==
    /\ spc = "off"
    /\ customConfig = [configured |-> FALSE, protocol |-> "openai",
                       streaming |-> FALSE]
    /\ fallbackAgent = FALSE
    /\ memorySessionId = "null"
    /\ dbMemorySessionId = "null"
    /\ lastPromptNumber = 0
    /\ activeMode = "modeA"
    /\ mode = "none"
    /\ pendingMessages = <<>>
    /\ processingMessageIds = <<>>
    /\ resetToPending = <<>>
    /\ confirmProcessed = <<>>
    /\ fallbackStartSession = <<>>
    /\ turn = NoTurn
    /\ response = NoResponse
    /\ sessionError = "none"
    /\ trace = <<>>

\* No fetch is under way.
FetcherOff ==
    /\ config = [firstTokenTimeoutSeconds |-> 0, totalTimeoutSeconds |-> 0]
    /\ maxRetries = DefaultMaxRetries
    /\ signalGiven = FALSE
    /\ signalAborted = FALSE
    /\ signalListener = FALSE
    /\ pc = "off"
    /\ attempt = 0
    /\ abortReason = "null"
    /\ controllerAborted = FALSE
    /\ totalTimer = Disarmed
    /\ firstTokenTimer = Disarmed
    /\ net = NoPlan
    /\ now = 0
    /\ firedTimer = "none"
    /\ fetchCalls = 0
    /\ requestsIssued = 0
    /\ lastError = "none"
    /\ outcome = NoOutcome
    /\ attemptLog = <<>>
    /\ cancel = NoCancel

\* No truncation is under way.
TruncationOff ==
    /\ history = <<>>
    /\ limits = [maxContextMessages |-> 0, maxTokens |-> 0]
    /\ truncatedHistory = <<>>
    /\ tpc = "off"

----------------------------------------------------------------------------
(* fetchWithTimeout: the pieces of one attempt.                            *)

\* config.xSeconds > 0 ? config.xSeconds * 1000 : 0
TimeoutMs(seconds) ==
    IF seconds > 0 THEN seconds * 1000 ELSE 0

firstTokenTimeoutMs ==
    TimeoutMs(config.firstTokenTimeoutSeconds)

totalTimeoutMs ==
    TimeoutMs(config.totalTimeoutSeconds)

\* abortForTimeout(): abortReason = 'timeout'; controller.abort()
abortForTimeout ==
    [abortReason |-> "timeout", aborted |-> TRUE]

\* Mutant: the external abort is recorded as a timeout.
onExternalAbort_AsTimeout ==
    [abortReason |-> "timeout", aborted |-> TRUE]

\* Mutant: the external abort is recorded but the request is not aborted.
onExternalAbort_NoAbort ==
    [abortReason |-> "external", aborted |-> FALSE]

\* onExternalAbort(): abortReason = 'external'; controller.abort()
onExternalAbort ==
    [abortReason |-> "external", aborted |-> TRUE]

\* Mutant: cleanup() forgets the listener on the external signal.
cleanup_KeepsListener ==
    [totalTimer |-> Disarmed, firstTokenTimer |-> Disarmed,
     signalListener |-> signalListener]

\* cleanup(): clear both timers, remove the listener from externalSignal
cleanup ==
    [totalTimer |-> Disarmed, firstTokenTimer |-> Disarmed,
     signalListener |-> IF signalGiven THEN FALSE ELSE signalListener]

\* The catch block's translation of a rejection caused by controller.abort()
AbortErrorFor(reason) ==
    IF reason = "timeout" THEN "TimeoutError" ELSE "AbortError"

\* Mutant: the retry loop also continues after a network error.
IsTimeoutError_OrNetworkError(err) ==
    err \in {"TimeoutError", "NetworkError"}

\* Mutant: a cancelled attempt is retried too.
IsTimeoutError_OrAbortError(err) ==
    err \in {"TimeoutError", "AbortError"}

\* error instanceof TimeoutError
IsTimeoutError(err) ==
    err = "TimeoutError"

\* Mutant: the loop runs one attempt too many.
LoopCondition_OffByOne(n) ==
    n <= maxRetries + 1

\* attempt <= maxRetries, the condition of the retry loop
LoopCondition(n) ==
    n <= maxRetries

\* The times at which something armed or under way is due.
PendingTimes ==
    (IF totalTimer.armed THEN {totalTimer.at} ELSE {})
    \cup (IF firstTokenTimer.armed THEN {firstTokenTimer.at} ELSE {})
    \cup (IF pc \in {"headers", "plainHeaders"} /\ net.kind \notin {"stallH", "none"}
            THEN {net.hAt} ELSE {})
    \cup (IF pc \in {"body", "plainBody"} /\ net.kind \notin {"stallB", "none"}
            THEN {net.bAt} ELSE {})

\* An event due at t is the next one to happen (ties go either way).
IsNext(t) ==
    \A u \in PendingTimes : t <= u

LogEntry(end) ==
    [net |-> net, end |-> end, phase |-> pc, at |-> now, by |-> firedTimer,
     n |-> attempt]

----------------------------------------------------------------------------
(* fetchWithTimeoutAndRetry: what the retry loop does with the end of an   *)
(* attempt.                                                                *)

\* The attempt returned a FetchResult: the loop returns it.
AttemptReturned ==
    /\ attemptLog' = Append(attemptLog, LogEntry("returned"))
    /\ pc' = "returned"
    /\ outcome' = Returned(net)
    /\ UNCHANGED <<attempt, lastError>>

\* The attempt threw err: continue on a TimeoutError, rethrow anything else;
\* after the loop, throw lastError.
AttemptThrew(err) ==
    /\ attemptLog' = Append(attemptLog, LogEntry(err))
    /\ IF IsTimeoutError(err)
         THEN /\ lastError' = err
              /\ attempt' = attempt + 1
              /\ IF LoopCondition(attempt + 1)
                   THEN pc' = "attemptStart" /\ outcome' = outcome
                   ELSE pc' = "thrown" /\ outcome' = Threw(err)
         ELSE /\ pc' = "thrown"
              /\ outcome' = Threw(err)
              /\ UNCHANGED <<attempt, lastError>>

\* No timeout configured: one plain fetch(url, {signal: abortSignal}).
CallPlain ==
    /\ pc = "idle"
    /\ firstTokenTimeoutMs = 0 /\ totalTimeoutMs = 0
    /\ fetchCalls' = fetchCalls + 1
    /\ IF signalGiven /\ signalAborted
         THEN net' = NoPlan /\ UNCHANGED requestsIssued
         ELSE net' \in NetPlans /\ requestsIssued' = requestsIssued + 1
    /\ pc' = "plainHeaders"
    /\ now' = 0
    /\ attempt' = 1
    /\ UNCHANGED <<config, maxRetries, signalGiven, signalAborted,
                   signalListener, abortReason, controllerAborted, totalTimer,
                   firstTokenTimer, firedTimer, lastError, outcome,
                   attemptLog, cancel, nonFetchVars>>

\* A timeout is configured: enter the retry loop with attempt = 1.
CallTimed ==
    /\ pc = "idle"
    /\ ~(firstTokenTimeoutMs = 0 /\ totalTimeoutMs = 0)
    /\ IF LoopCondition(1)
         THEN pc' = "attemptStart" /\ outcome' = outcome
         ELSE pc' = "thrown" /\ outcome' = Threw("TimeoutError")
    /\ attempt' = 1
    /\ UNCHANGED <<config, maxRetries, signalGiven, signalAborted,
                   signalListener, abortReason, controllerAborted, totalTimer,
                   firstTokenTimer, net, now, firedTimer, fetchCalls,
                   requestsIssued, lastError, attemptLog, cancel, nonFetchVars>>

\* fetchWithTimeout up to its first await: hook the external signal, arm the
\* timers, call fetch().  fetch() with an aborted signal puts nothing on the
\* wire and rejects with an AbortError.
FetchWithTimeoutStart ==
    /\ pc = "attemptStart"
    /\ LET preAborted == signalGiven /\ signalAborted
           aborted == preAborted /\ onExternalAbort.aborted
       IN  /\ abortReason' = IF preAborted THEN onExternalAbort.abortReason
                                           ELSE "null"
           /\ controllerAborted' = aborted
           /\ signalListener' = (signalGiven /\ ~signalAborted)
           /\ IF aborted
                THEN net' = NoPlan /\ UNCHANGED requestsIssued
                ELSE net' \in NetPlans /\ requestsIssued' = requestsIssued + 1
    /\ totalTimer' = IF totalTimeoutMs > 0 THEN Armed(totalTimeoutMs)
                                           ELSE Disarmed
    /\ firstTokenTimer' = IF firstTokenTimeoutMs > 0
                            THEN Armed(firstTokenTimeoutMs) ELSE Disarmed
    /\ fetchCalls' = fetchCalls + 1
    /\ now' = 0
    /\ firedTimer' = "none"
    /\ pc' = "headers"
    /\ UNCHANGED <<config, maxRetries, signalGiven, signalAborted, attempt,
                   lastError, outcome, attemptLog, cancel, nonFetchVars>>

\* The total timer fires: abortForTimeout().
TotalTimerFires ==
    /\ pc \in {"headers", "body"}
    /\ ~controllerAborted
    /\ totalTimer.armed /\ IsNext(totalTimer.at)
    /\ now' = totalTimer.at
    /\ totalTimer' = Disarmed
    /\ abortReason' = abortForTimeout.abortReason
    /\ controllerAborted' = abortForTimeout.aborted
    /\ firedTimer' = "total"
    /\ UNCHANGED <<config, maxRetries, signalGiven, signalAborted,
                   signalListener, pc, attempt, firstTokenTimer, net,
                   fetchCalls, requestsIssued, lastError, outcome, attemptLog,
                   cancel, nonFetchVars>>

\* The first-token timer fires: abortForTimeout().
FirstTokenTimerFires ==
    /\ pc \in {"headers", "body"}
    /\ ~controllerAborted
    /\ firstTokenTimer.armed /\ IsNext(firstTokenTimer.at)
    /\ now' = firstTokenTimer.at
    /\ firstTokenTimer' = Disarmed
    /\ abortReason' = abortForTimeout.abortReason
    /\ controllerAborted' = abortForTimeout.aborted
    /\ firedTimer' = "firstToken"
    /\ UNCHANGED <<config, maxRetries, signalGiven, signalAborted,
                   signalListener, pc, attempt, totalTimer, net, fetchCalls,
                   requestsIssued, lastError, outcome, attemptLog, cancel,
                   nonFetchVars>>

\* The session owner aborts the external signal (before the call or while a
\* request is in flight); a registered {once: true} listener runs and is gone.
ExternalAbort ==
    /\ signalGiven /\ ~signalAborted
    /\ pc \in {"idle", "headers", "body", "plainHeaders", "plainBody"}
    /\ ~controllerAborted
    /\ signalAborted' = TRUE
    /\ cancel' = [fired |-> TRUE, at |-> pc, calls |-> fetchCalls]
    /\ IF signalListener
         THEN /\ abortReason' = onExternalAbort.abortReason
              /\ controllerAborted' = onExternalAbort.aborted
              /\ signalListener' = FALSE
         ELSE UNCHANGED <<abortReason, controllerAborted, signalListener>>
    /\ UNCHANGED <<config, maxRetries, signalGiven, pc, attempt, totalTimer,
                   firstTokenTimer, net, now, firedTimer, fetchCalls,
                   requestsIssued, lastError, outcome, attemptLog, nonFetchVars>>

\* Mutant: the first-token timer stays armed while the body is read.
HeadersArrive_KeepsFirstTokenTimer ==
    /\ pc = "headers"
    /\ ~controllerAborted
    /\ net.kind \in {"ok", "non2xx", "neterrB", "stallB"}
    /\ IsNext(net.hAt)
    /\ now' = net.hAt
    /\ pc' = "body"
    /\ UNCHANGED <<config, maxRetries, signalGiven, signalAborted,
                   signalListener, attempt, abortReason, controllerAborted,
                   totalTimer, firstTokenTimer, net, firedTimer, fetchCalls,
                   requestsIssued, lastError, outcome, attemptLog, cancel,
                   nonFetchVars>>

\* await fetch() resolves: the first-token timer is cleared, the body read
\* starts.
HeadersArrive ==
    /\ pc = "headers"
    /\ ~controllerAborted
    /\ net.kind \in {"ok", "non2xx", "neterrB", "stallB"}
    /\ IsNext(net.hAt)
    /\ now' = net.hAt
    /\ firstTokenTimer' = Disarmed
    /\ pc' = "body"
    /\ UNCHANGED <<config, maxRetries, signalGiven, signalAborted,
                   signalListener, attempt, abortReason, controllerAborted,
                   totalTimer, net, firedTimer, fetchCalls, requestsIssued,
                   lastError, outcome, attemptLog, cancel, nonFetchVars>>

\* await response.text() resolves: cleanup(), return {ok, status, body}.
BodyComplete ==
    /\ pc = "body"
    /\ ~controllerAborted
    /\ net.kind \in {"ok", "non2xx"}
    /\ IsNext(net.bAt)
    /\ now' = net.bAt
    /\ totalTimer' = cleanup.totalTimer
    /\ firstTokenTimer' = cleanup.firstTokenTimer
    /\ signalListener' = cleanup.signalListener
    /\ AttemptReturned
    /\ UNCHANGED <<config, maxRetries, signalGiven, signalAborted,
                   abortReason, controllerAborted, net, firedTimer,
                   fetchCalls, requestsIssued, cancel, nonFetchVars>>

\* await fetch() or await response.text() rejects with a network error:
\* cleanup(), rethrow.
NetworkFails ==
    /\ ~controllerAborted
    /\ \/ pc = "headers" /\ net.kind = "neterrH" /\ IsNext(net.hAt)
          /\ now' = net.hAt
       \/ pc = "body" /\ net.kind = "neterrB" /\ IsNext(net.bAt)
          /\ now' = net.bAt
    /\ totalTimer' = cleanup.totalTimer
    /\ firstTokenTimer' = cleanup.firstTokenTimer
    /\ signalListener' = cleanup.signalListener
    /\ AttemptThrew("NetworkError")
    /\ UNCHANGED <<config, maxRetries, signalGiven, signalAborted,
                   abortReason, controllerAborted, net, firedTimer,
                   fetchCalls, requestsIssued, cancel, nonFetchVars>>

\* The pending await rejects with an AbortError after controller.abort():
\* cleanup(), then TimeoutError or AbortError by abortReason.
AbortRejects ==
    /\ pc \in {"headers", "body"}
    /\ controllerAborted
    /\ totalTimer' = cleanup.totalTimer
    /\ firstTokenTimer' = cleanup.firstTokenTimer
    /\ signalListener' = cleanup.signalListener
    /\ AttemptThrew(AbortErrorFor(abortReason))
    /\ UNCHANGED <<config, maxRetries, signalGiven, signalAborted,
                   abortReason, controllerAborted, net, now, firedTimer,
                   fetchCalls, requestsIssued, cancel, nonFetchVars>>

\* The plain path: await fetch() resolves.
PlainHeadersArrive ==
    /\ pc = "plainHeaders"
    /\ ~(signalGiven /\ signalAborted)
    /\ net.kind \in {"ok", "non2xx", "neterrB", "stallB"}
    /\ now' = net.hAt
    /\ pc' = "plainBody"
    /\ UNCHANGED <<config, maxRetries, signalGiven, signalAborted,
                   signalListener, attempt, abortReason, controllerAborted,
                   totalTimer, firstTokenTimer, net, firedTimer, fetchCalls,
                   requestsIssued, lastError, outcome, attemptLog, cancel,
                   nonFetchVars>>

\* The plain path: await response.text() resolves, the result is returned.
PlainBodyComplete ==
    /\ pc = "plainBody"
    /\ ~(signalGiven /\ signalAborted)
    /\ net.kind \in {"ok", "non2xx"}
    /\ now' = net.bAt
    /\ attemptLog' = Append(attemptLog, LogEntry("returned"))
    /\ pc' = "returned"
    /\ outcome' = Returned(net)
    /\ UNCHANGED <<config, maxRetries, signalGiven, signalAborted,
                   signalListener, attempt, abortReason, controllerAborted,
                   totalTimer, firstTokenTimer, net, firedTimer, fetchCalls,
                   requestsIssued, lastError, cancel, nonFetchVars>>

\* The plain path: fetch() or the body read rejects (network error, or an
\* AbortError when abortSignal is aborted); the error propagates.
PlainRejects ==
    /\ \/ /\ signalGiven /\ signalAborted
          /\ pc \in {"plainHeaders", "plainBody"}
          /\ attemptLog' = Append(attemptLog, LogEntry("AbortError"))
          /\ outcome' = Threw("AbortError")
          /\ now' = now
       \/ /\ ~(signalGiven /\ signalAborted)
          /\ \/ pc = "plainHeaders" /\ net.kind = "neterrH" /\ now' = net.hAt
             \/ pc = "plainBody" /\ net.kind = "neterrB" /\ now' = net.bAt
          /\ attemptLog' = Append(attemptLog, LogEntry("NetworkError"))
          /\ outcome' = Threw("NetworkError")
    /\ pc' = "thrown"
    /\ UNCHANGED <<config, maxRetries, signalGiven, signalAborted,
                   signalListener, attempt, abortReason, controllerAborted,
                   totalTimer, firstTokenTimer, net, firedTimer, fetchCalls,
                   requestsIssued, lastError, cancel, nonFetchVars>>

----------------------------------------------------------------------------
Init ==
    /\ config \in [firstTokenTimeoutSeconds : TimeoutSecondsChoices,
                   totalTimeoutSeconds : TimeoutSecondsChoices]
    /\ maxRetries \in 1..DefaultMaxRetries
    /\ signalGiven \in BOOLEAN
    /\ signalAborted = FALSE
    /\ signalListener = FALSE
    /\ pc = "idle"
    /\ attempt = 0
    /\ abortReason = "null"
    /\ controllerAborted = FALSE
    /\ totalTimer = Disarmed
    /\ firstTokenTimer = Disarmed
    /\ net = NoPlan
    /\ now = 0
    /\ firedTimer = "none"
    /\ fetchCalls = 0
    /\ requestsIssued = 0
    /\ lastError = "none"
    /\ outcome = NoOutcome
    /\ attemptLog = <<>>
    /\ cancel = NoCancel
    /\ history = <<>>
    /\ limits = [maxContextMessages |-> 0, maxTokens |-> 0]
    /\ truncatedHistory = <<>>
    /\ tpc = "off"
    /\ DecodersOff
    /\ DatabaseOff
    /\ SessionOff

Next ==
    \/ CallPlain
    \/ CallTimed
    \/ FetchWithTimeoutStart
    \/ TotalTimerFires
    \/ FirstTokenTimerFires
    \/ ExternalAbort
    \/ HeadersArrive
    \/ BodyComplete
    \/ NetworkFails
    \/ AbortRejects
    \/ PlainHeadersArrive
    \/ PlainBodyComplete
    \/ PlainRejects

Spec ==
    Init /\ [][Next]_vars

----------------------------------------------------------------------------
(* truncateHistory.  A message is [role, content]; a content is a sequence *)
(* of characters, so that its length decides its estimated token cost.     *)

\* Longest history the model draws.
MaxHistory ==
    4

\* Largest maxContextMessages the model draws (0 = disabled).
MaxContextMessagesBound ==
    3

\* Largest maxTokens the model draws (0 = disabled).
MaxTokensBound ==
    4

Text(n, c) ==
    [i \in 1..n |-> c]

\* Contents of 0, 1, 2 and 3 estimated tokens.
Contents ==
    {Text(0, "a"), Text(1, "a"), Text(5, "b"), Text(9, "c")}

Messages ==
    [role : {"user", "assistant"}, content : Contents]

Histories ==
    UNION {[1..n -> Messages] : n \in 1..MaxHistory}

\* Math.ceil(text.length / CHARS_PER_TOKEN_ESTIMATE)
estimateTokens(text) ==
    (Len(text) + CHARS_PER_TOKEN_ESTIMATE - 1) \div CHARS_PER_TOKEN_ESTIMATE

\* history.reduce((sum, m) => sum + estimateTokens(m.content), 0)
RECURSIVE totalTokens(_)
totalTokens(h) ==
    IF h = <<>> THEN 0
    ELSE estimateTokens(Head(h).content) + totalTokens(Tail(h))

\* Mutant: the limits are compared with < instead of <=.
withinLimits_Strict(h, cfg) ==
    /\ cfg.maxContextMessages <= 0 \/ Len(h) < cfg.maxContextMessages
    /\ cfg.maxTokens <= 0 \/ totalTokens(h) < cfg.maxTokens

\* withinMessageLimit && withinTokenLimit
withinLimits(h, cfg) ==
    /\ cfg.maxContextMessages <= 0 \/ Len(h) <= cfg.maxContextMessages
    /\ cfg.maxTokens <= 0 \/ totalTokens(h) <= cfg.maxTokens

\* Mutant: the message limit is tested with > instead of >=, so the window
\* takes one message too many.
RECURSIVE slidingWindow_OneTooMany(_, _, _, _, _)
slidingWindow_OneTooMany(h, cfg, i, truncated, tokenCount) ==
    IF i < 1 THEN truncated
    ELSE LET msg == h[i]
             msgTokens == estimateTokens(msg.content)
             exceedsMessageLimit ==
                 cfg.maxContextMessages > 0
                 /\ Len(truncated) > cfg.maxContextMessages
             exceedsTokenLimit ==
                 cfg.maxTokens > 0 /\ tokenCount + msgTokens > cfg.maxTokens
         IN  IF exceedsMessageLimit \/ exceedsTokenLimit
               THEN truncated
               ELSE slidingWindow_OneTooMany(h, cfg, i - 1,
                                             <<msg>> \o truncated,
                                             tokenCount + msgTokens)

\* The loop over history[i], i = length-1 .. 0 (here i = Len(h) .. 1), which
\* unshifts messages into truncated until a limit would be exceeded.
RECURSIVE slidingWindow(_, _, _, _, _)
slidingWindow(h, cfg, i, truncated, tokenCount) ==
    IF i < 1 THEN truncated
    ELSE LET msg == h[i]
             msgTokens == estimateTokens(msg.content)
             exceedsMessageLimit ==
                 cfg.maxContextMessages > 0
                 /\ Len(truncated) >= cfg.maxContextMessages
             exceedsTokenLimit ==
                 cfg.maxTokens > 0 /\ tokenCount + msgTokens > cfg.maxTokens
         IN  IF exceedsMessageLimit \/ exceedsTokenLimit
               THEN truncated
               ELSE slidingWindow(h, cfg, i - 1, <<msg>> \o truncated,
                                  tokenCount + msgTokens)

\* truncated.findIndex(msg => msg.role === 'user'), 1-based; 0 for -1
firstUserIdx(truncated) ==
    IF \E i \in 1..Len(truncated) : truncated[i].role = "user"
      THEN CHOOSE i \in 1..Len(truncated) :
               /\ truncated[i].role = "user"
               /\ \A j \in 1..(i - 1) : truncated[j].role # "user"
      ELSE 0

\* Mutant: the fallback takes the content of the latest message, whatever
\* its role.
latestUserFallback_AnyRole(h) ==
    <<[role |-> "user", content |-> h[Len(h)].content]>>

\* Mutant: the fallback takes the first user message, not the latest.
latestUserFallback_Earliest(h) ==
    IF \E i \in 1..Len(h) : h[i].role = "user"
      THEN <<[role |-> "user", content |-> h[firstUserIdx(h)].content]>>
      ELSE <<[role |-> "user", content |-> <<>>]>>

\* [{role: 'user', content: latestUserMessage?.content || ''}] with
\* latestUserMessage = [...history].reverse().find(msg => msg.role === 'user')
latestUserFallback(h) ==
    IF \E i \in 1..Len(h) : h[i].role = "user"
      THEN LET last == CHOOSE i \in 1..Len(h) :
                           /\ h[i].role = "user"
                           /\ \A j \in (i + 1)..Len(h) : h[j].role # "user"
           IN  <<[role |-> "user", content |-> h[last].content]>>
      ELSE <<[role |-> "user", content |-> <<>>]>>

\* Mutant: the window is returned without the user-first repair.
ensureUserFirst_NoRepair(h, truncated) ==
    IF Len(truncated) = 0 THEN latestUserFallback(h) ELSE truncated

\* The user-first repair of the window and the empty-window fallback.
ensureUserFirst(h, truncated) ==
    IF Len(truncated) > 0 /\ truncated[1].role # "user"
      THEN LET idx == firstUserIdx(truncated)
           IN  IF idx > 1
                 THEN SubSeq(truncated, idx, Len(truncated))
                 ELSE latestUserFallback(h)
      ELSE IF Len(truncated) = 0
             THEN latestUserFallback(h)
             ELSE truncated

truncateHistory(h, cfg) ==
    IF cfg.maxContextMessages <= 0 /\ cfg.maxTokens <= 0
      THEN h
      ELSE IF withinLimits(h, cfg)
             THEN h
             ELSE ensureUserFirst(h, slidingWindow(h, cfg, Len(h), <<>>, 0))

\* The arrays truncateHistory works on: the parameter history, which is the
\* stored session.conversationHistory itself, the local truncated, and the
\* copy [...history] of the fallback.  A method that changes an array in
\* place changes the array it is called on.
Arrays(h) ==
    [history |-> h, truncated |-> <<>>, copy |-> <<>>]

\* target.unshift(msg)
unshift(arrays, target, msg) ==
    [arrays EXCEPT ![target] = <<msg>> \o @]

\* target.splice(0, deleteCount)
splice(arrays, target, deleteCount) ==
    [arrays EXCEPT ![target] = SubSeq(@, deleteCount + 1, Len(@))]

\* target.reverse(), in place
reverse(arrays, target) ==
    [arrays EXCEPT ![target] = [i \in 1..Len(@) |-> @[Len(@) + 1 - i]]]

\* Mutant: history.reverse() without the copy; copy is the array history.
reversedCopy_InPlace(arrays) ==
    [reverse(arrays, "history") EXCEPT
        !.copy = reverse(arrays, "history").history]

\* [...history].reverse()
reversedCopy(arrays) ==
    reverse([arrays EXCEPT !.copy = arrays.history], "copy")

\* What a call leaves and returns: the arrays, the array returned
\* ("literal": an array written in the return statement) and what it holds.
Truncation(arrays, returned, result) ==
    [arrays |-> arrays, returned |-> returned, result |-> result]

\* return [{ role: 'user', content: latestUserMessage?.content || '' }]
\* where latestUserMessage is found in the reversed copy
latestUserOnly(arrays) ==
    Truncation(arrays, "literal",
        <<[role |-> "user",
           content |-> IF firstUserIdx(arrays.copy) = 0 THEN <<>>
                       ELSE arrays.copy[firstUserIdx(arrays.copy)].content]>>)

\* The loop of lines 1603-1616 on the arrays.
RECURSIVE windowOnArrays(_, _, _, _)
windowOnArrays(arrays, cfg, i, tokenCount) ==
    IF i < 1 THEN arrays
    ELSE IF \/ /\ cfg.maxContextMessages > 0
               /\ Len(arrays.truncated) >= cfg.maxContextMessages
            \/ /\ cfg.maxTokens > 0
               /\ tokenCount + estimateTokens(arrays.history[i].content)
                      > cfg.maxTokens
      THEN arrays
    ELSE windowOnArrays(unshift(arrays, "truncated", arrays.history[i]),
                        cfg, i - 1,
                        tokenCount
                        + estimateTokens(arrays.history[i].content))

\* Lines 1618-1656 on the arrays.
repairOnArrays(arrays) ==
    IF Len(arrays.truncated) = 0
      THEN latestUserOnly(reversedCopy(arrays))
    ELSE IF arrays.truncated[1].role = "user"
      THEN Truncation(arrays, "truncated", arrays.truncated)
    ELSE IF firstUserIdx(arrays.truncated) = 0
      THEN latestUserOnly(reversedCopy(arrays))
    ELSE Truncation(
             splice(arrays, "truncated", firstUserIdx(arrays.truncated) - 1),
             "truncated",
             splice(arrays, "truncated",
                    firstUserIdx(arrays.truncated) - 1).truncated)

\* truncateHistory with the arrays it reads and writes.
truncateHistoryOnArrays(h, cfg) ==
    IF (cfg.maxContextMessages <= 0 /\ cfg.maxTokens <= 0)
       \/ withinLimits(h, cfg)
      THEN Truncation(Arrays(h), "history", h)
      ELSE repairOnArrays(windowOnArrays(Arrays(h), cfg, Len(h), 0))

\* queryJsonMultiTurn: the history is truncated and the result handed to the
\* protocol's query function; the stored history is what the call leaves
\* in the array.
QueryJsonMultiTurn ==
    /\ tpc = "input"
    /\ truncatedHistory' = truncateHistory(history, limits)
    /\ history' = truncateHistoryOnArrays(history, limits).arrays.history
    /\ tpc' = "done"
    /\ UNCHANGED <<limits, fetchVars, decVars, dbVars, sessVars>>

InitTruncate ==
    /\ history \in Histories
    /\ limits \in [maxContextMessages : 0..MaxContextMessagesBound,
                   maxTokens : 0..MaxTokensBound]
    /\ truncatedHistory = <<>>
    /\ tpc = "input"
    /\ DecodersOff
    /\ DatabaseOff
    /\ SessionOff
    /\ config = [firstTokenTimeoutSeconds |-> 0, totalTimeoutSeconds |-> 0]
    /\ maxRetries = DefaultMaxRetries
    /\ signalGiven = FALSE
    /\ signalAborted = FALSE
    /\ signalListener = FALSE
    /\ pc = "off"
    /\ attempt = 0
    /\ abortReason = "null"
    /\ controllerAborted = FALSE
    /\ totalTimer = Disarmed
    /\ firstTokenTimer = Disarmed
    /\ net = NoPlan
    /\ now = 0
    /\ firedTimer = "none"
    /\ fetchCalls = 0
    /\ requestsIssued = 0
    /\ lastError = "none"
    /\ outcome = NoOutcome
    /\ attemptLog = <<>>
    /\ cancel = NoCancel

NextTruncate ==
    QueryJsonMultiTurn

SpecTruncate ==
    InitTruncate /\ [][NextTruncate]_vars

----------------------------------------------------------------------------
(* The event loop runs every callback that is due: timers fire, responses  *)
(* and errors the network has in store are delivered, rejections reach     *)
(* their catch block.  Nothing obliges the session owner to abort.         *)
Progress ==
    \/ CallPlain
    \/ CallTimed
    \/ FetchWithTimeoutStart
    \/ TotalTimerFires
    \/ FirstTokenTimerFires
    \/ HeadersArrive
    \/ BodyComplete
    \/ NetworkFails
    \/ AbortRejects
    \/ PlainHeadersArrive
    \/ PlainBodyComplete
    \/ PlainRejects

FairSpec ==
    Spec /\ WF_vars(Progress)

----------------------------------------------------------------------------
(* Properties of the fetcher.                                              *)

Done ==
    pc \in {"returned", "thrown"}

InFlight ==
    pc \in {"headers", "body", "plainHeaders", "plainBody"}

TimeoutConfigured ==
    firstTokenTimeoutMs > 0 \/ totalTimeoutMs > 0

LastAttempt ==
    attemptLog[Len(attemptLog)]

\* C1: fetchWithTimeoutAndRetry retries only after a TimeoutError: every
\* attempt that was followed by another one ended with TimeoutError; a
\* network error ends the call at once with that error, and a non-2xx
\* response ends it at once as a result with ok = false and its body.
Thm_C1_RetryOnlyOnTimeout ==
    /\ fetchCalls = Len(attemptLog) + (IF InFlight THEN 1 ELSE 0)
    /\ \A i \in 1..Len(attemptLog) :
        /\ (i < Len(attemptLog) \/ ~Done) =>
               attemptLog[i].end = "TimeoutError"
        /\ attemptLog[i].end = "NetworkError" =>
               /\ i = Len(attemptLog)
               /\ pc = "thrown"
               /\ outcome.kind = "error" /\ outcome.error = "NetworkError"
        /\ (attemptLog[i].end = "returned"
                /\ attemptLog[i].net.kind = "non2xx") =>
               /\ i = Len(attemptLog)
               /\ pc = "returned"
               /\ outcome.kind = "result" /\ outcome.ok = FALSE
               /\ outcome.status = 500
               /\ outcome.body = "upstream error text"

\* C1 witness: with retries left (second attempt of three), a network
\* error ended the call.
Wit_C1_NetworkErrorNotRetried ==
    /\ pc = "thrown"
    /\ outcome.error = "NetworkError"
    /\ Len(attemptLog) = 2
    /\ maxRetries = 3

\* The safety half of C2: with a timeout configured the call makes at
\* most maxRetries attempts, and when all of them timed out it throws
\* TimeoutError.
BoundedAttempts ==
    TimeoutConfigured =>
        /\ fetchCalls <= maxRetries
        /\ Len(attemptLog) <= maxRetries
        /\ (/\ Len(attemptLog) = maxRetries
            /\ \A i \in 1..Len(attemptLog) :
                   attemptLog[i].end = "TimeoutError") =>
               /\ pc = "thrown"
               /\ outcome.kind = "error" /\ outcome.error = "TimeoutError"
               /\ lastError = "TimeoutError"

\* A response whose headers came and whose body never completes, read with
\* no total timer: nothing but the external signal can end the attempt.
BodyStalledUntimed ==
    /\ pc = "body"
    /\ net.kind = "stallB"
    /\ totalTimeoutMs = 0

\* C2 as stated: with a timeout configured a call makes at most maxRetries
\* attempts, throws TimeoutError when all of them time out, and always
\* terminates with a result or an error.
Orig_C2_AlwaysTerminates ==
    /\ []BoundedAttempts
    /\ []((TimeoutConfigured /\ pc # "idle") => <>Done)

\* C2 amended: with a timeout configured a call makes at most maxRetries
\* attempts, throws TimeoutError when all of them time out, and terminates
\* with a result or an error unless, with the total timeout disabled, a
\* response delivers its headers and then never completes its body.
Thm_C2_BoundedRetries ==
    /\ []BoundedAttempts
    /\ []((TimeoutConfigured /\ pc # "idle") =>
              <>(Done \/ BodyStalledUntimed))

\* C2 witness: three attempts, each ended by a timeout, and the call threw
\* TimeoutError.
Wit_C2_AllAttemptsTimedOut ==
    /\ pc = "thrown"
    /\ maxRetries = 3
    /\ Len(attemptLog) = 3
    /\ \A i \in 1..3 : attemptLog[i].end = "TimeoutError"
    /\ outcome.error = "TimeoutError"

\* The external signal fired while a request of fetchWithTimeout was in
\* flight.
CancelledInFlight ==
    cancel.fired /\ cancel.at \in {"headers", "body"}

\* C3: when the external signal fires while a request of fetchWithTimeout
\* is in flight, that attempt fails with AbortError, never with
\* TimeoutError, whatever timers are armed, and the retry loop makes no
\* further attempt: the call ends by throwing AbortError.
Thm_C3_CancelIsNotTimeout ==
    CancelledInFlight =>
        /\ fetchCalls = cancel.calls
        /\ pc \in {"headers", "body", "thrown"}
        /\ InFlight => (controllerAborted /\ abortReason = "external")
        /\ pc = "thrown" =>
               /\ LastAttempt.end = "AbortError"
               /\ Len(attemptLog) = cancel.calls
               /\ outcome.kind = "error" /\ outcome.error = "AbortError"

\* C3 witness: both timers configured, a first attempt timed out, the signal
\* fired during the body read of the second attempt, whose total timer was
\* still armed, and the call threw AbortError.
Wit_C3_CancelDuringBody ==
    /\ cancel.fired /\ cancel.at = "body" /\ cancel.calls = 2
    /\ firstTokenTimeoutMs > 0 /\ totalTimeoutMs > 0
    /\ maxRetries = 3
    /\ pc = "thrown"
    /\ outcome.error = "AbortError"

\* C4 as stated: first-token timeout 1 s, total timeout 10 s, nobody
\* cancels; the first response delivers its headers at once and its first
\* body byte after 1.5 s, the second responds at once.  Then the first
\* attempt ends with TimeoutError and the call returns after exactly two
\* fetch calls.
Orig_C4_SlowFirstBodyByteRetried ==
    (/\ config.firstTokenTimeoutSeconds = 1
     /\ config.totalTimeoutSeconds = 10
     /\ maxRetries = DefaultMaxRetries
     /\ ~signalAborted
     /\ Len(attemptLog) >= 1
     /\ attemptLog[1].net = [kind |-> "ok", hAt |-> 0, bAt |-> 1500]
     /\ Len(attemptLog) >= 2 =>
            attemptLog[2].net = [kind |-> "ok", hAt |-> 0, bAt |-> 0]) =>
        /\ attemptLog[1].end = "TimeoutError"
        /\ Done => (pc = "returned" /\ fetchCalls = 2)

Thm_C6_CleanupOnEveryExit ==
    (pc \in {"attemptStart", "returned", "thrown"} /\ TimeoutConfigured) =>
        /\ ~totalTimer.armed
        /\ ~firstTokenTimer.armed
        /\ ~signalListener

\* C6 witness: with both timers configured and a listener registered, a
\* first attempt exited by a timeout and the second one exited by returning
\* while its total timer was still armed.
Wit_C6_ExitsWithResources ==
    /\ signalGiven
    /\ firstTokenTimeoutMs > 0 /\ totalTimeoutMs > firstTokenTimeoutMs
    /\ Len(attemptLog) = 2
    /\ attemptLog[1].end = "TimeoutError"
    /\ attemptLog[2].end = "returned"
    /\ attemptLog[2].at < totalTimeoutMs
    /\ pc = "returned"

\* C7: when the external signal has fired before the call, fetchWithTimeout
\* throws AbortError at once: no request is put on the wire, no time passes
\* and no second attempt is made.
Thm_C7_PreAbortedNoRequest ==
    (cancel.fired /\ cancel.at = "idle" /\ TimeoutConfigured) =>
        /\ requestsIssued = 0
        /\ fetchCalls <= 1
        /\ now = 0
        /\ pc \in {"idle", "attemptStart", "headers", "thrown"}
        /\ pc = "headers" => controllerAborted
        /\ pc = "thrown" =>
               (outcome.kind = "error" /\ outcome.error = "AbortError")

\* C7 witness: the signal fired before the call, timeouts are configured,
\* and the call has thrown.
Wit_C7_PreAbortedThrew ==
    /\ cancel.fired /\ cancel.at = "idle"
    /\ TimeoutConfigured
    /\ pc = "thrown"
    /\ fetchCalls = 1

----------------------------------------------------------------------------
(* Properties of truncateHistory.                                          *)

HasUser(h) ==
    \E i \in 1..Len(h) : h[i].role = "user"

\* The last k messages of h.
Suffix(h, k) ==
    SubSeq(h, Len(h) - k + 1, Len(h))

\* Every enabled limit admits h.
Fits(h, cfg) ==
    /\ cfg.maxContextMessages > 0 => Len(h) <= cfg.maxContextMessages
    /\ cfg.maxTokens > 0 => totalTokens(h) <= cfg.maxTokens

\* The most recent user message of h.
LatestUser(h) ==
    h[CHOOSE i \in 1..Len(h) :
          /\ h[i].role = "user"
          /\ \A j \in (i + 1)..Len(h) : h[j].role # "user"]

UserFirst(h) ==
    Len(h) > 0 /\ h[1].role = "user"

NoUserFits ==
    \A k \in 1..Len(history) :
        Fits(Suffix(history, k), limits) => ~HasUser(Suffix(history, k))

\* C9: for a history with a user message the truncated history is never
\* empty, and when the limits admit no message at all, or no suffix with a
\* user message, it is exactly the one-element list of the most recent user
\* message of the history, whatever that message costs.
Thm_C9_LatestUserFallback ==
    (tpc = "done" /\ HasUser(history)) =>
        /\ truncatedHistory # <<>>
        /\ NoUserFits => truncatedHistory = <<LatestUser(history)>>

\* C9 witness: the fallback returned the latest user message, which is not
\* the last message, is not the only user message, and alone costs more
\* than maxTokens.
Wit_C9_FallbackOverBudget ==
    /\ tpc = "done"
    /\ Len(history) = 3
    /\ history[1].role = "user"
    /\ history[2].role = "user"
    /\ history[3].role = "assistant"
    /\ history[1].content # history[2].content
    /\ limits.maxTokens > 0
    /\ estimateTokens(history[2].content) > limits.maxTokens
    /\ truncatedHistory = <<history[2]>>

\* C10: the history is returned unchanged when both limits are 0 and when
\* it satisfies every enabled limit.
Thm_C10_UnchangedWithinLimits ==
    (tpc = "done" /\ Fits(history, limits)) => truncatedHistory = history

\* C10 witness: both limits enabled and met exactly (as many messages as
\* maxContextMessages, as many tokens as maxTokens) by an assistant-first
\* history, which came back unchanged.
Wit_C10_ExactlyAtLimits ==
    /\ tpc = "done"
    /\ limits.maxContextMessages > 0 /\ limits.maxTokens > 0
    /\ Len(history) = limits.maxContextMessages
    /\ totalTokens(history) = limits.maxTokens
    /\ Len(history) >= 2
    /\ history[1].role = "assistant"
    /\ truncatedHistory = history

\* C11: when a limit is exceeded and the single-message fallback is not
\* taken (some suffix the limits admit holds a user message), the truncated
\* history is a contiguous proper suffix of the history, so it ends with the
\* history's last message and older messages went before newer ones; it
\* holds at most maxContextMessages messages (when > 0) and its estimated
\* token sum, at ceil(length/4) a message, is at most maxTokens (when > 0).
Thm_C11_SuffixWithinLimits ==
    (tpc = "done" /\ ~Fits(history, limits) /\ ~NoUserFits) =>
        /\ \E k \in 1..(Len(history) - 1) :
               truncatedHistory = Suffix(history, k)
        /\ truncatedHistory[Len(truncatedHistory)] = history[Len(history)]
        /\ Fits(truncatedHistory, limits)

\* C11 witness: four messages against both limits; the result is the last
\* two messages, which meet the message limit exactly, and the third from
\* the end was left out.
Wit_C11_WindowOfTwo ==
    /\ tpc = "done"
    /\ Len(history) = 4
    /\ limits.maxContextMessages = 2 /\ limits.maxTokens > 0
    /\ history[3].role = "user"
    /\ history[3].content # history[4].content
    /\ totalTokens(history) > limits.maxTokens
    /\ truncatedHistory = <<history[3], history[4]>>

----------------------------------------------------------------------------
(* Response texts and the JavaScript string functions the decoders use.    *)
(* A text is a sequence of tokens: line breaks, blanks, the SSE marker     *)
(* "data:", the JSON punctuation of an object, and one token per member of *)
(* a response object ("choices":[{"delta":{"content":c}}], "usage":{...},  *)
(* ...), which carries the member's value.  A string value (a content) is  *)
(* a sequence of characters, so that += and join('') are concatenation.    *)

Tok(t, v, n) ==
    [n |-> n, t |-> t, v |-> v]

NL ==
    Tok("nl", <<>>, 0)

CR ==
    Tok("cr", <<>>, 0)

SP ==
    Tok("sp", <<>>, 0)

\* the five characters data:
DATA ==
    Tok("data:", <<>>, 0)

\* the field name of an SSE line that is not a data line (event: ping)
EVENT ==
    Tok("event:", <<>>, 0)

LBRACE ==
    Tok("{", <<>>, 0)

RBRACE ==
    Tok("}", <<>>, 0)

COMMA ==
    Tok(",", <<>>, 0)

\* the terminator [DONE]
DONE ==
    Tok("[DONE]", <<>>, 0)

\* text that is no JSON, such as <html>503 upstream</html>
HTML ==
    Tok("<html>", <<>>, 0)

\* "choices":[{"delta":{"content":c}}]
Delta(c) ==
    Tok("delta", c, 0)

\* "choices":[{"message":{"content":c}}]
Message(c) ==
    Tok("message", c, 0)

\* "usage":{"total_tokens":n}
Usage(n) ==
    Tok("usage", <<>>, n)

\* "error":{"code":code,"message":message}
ErrorMember(code, message) ==
    Tok("error", <<code, message>>, 0)

\* "candidates":[{"content":{"parts":parts}}]
Candidates(parts) ==
    Tok("candidates", parts, 0)

\* "usageMetadata":{"totalTokenCount":n}
UsageMetadata(n) ==
    Tok("usageMetadata", <<>>, n)

\* tokensUsed: number | undefined
UndefinedNumber ==
    -1

\* \s of the regular expressions, and what trim() removes
IsSpace(tok) ==
    tok.t \in {"nl", "cr", "sp"}

\* String.prototype.replace(/^\s*/, '')
RECURSIVE trimStart(_)
trimStart(s) ==
    IF Len(s) > 0 /\ IsSpace(Head(s)) THEN trimStart(Tail(s)) ELSE s

\* String.prototype.trimEnd()
RECURSIVE trimEnd(_)
trimEnd(s) ==
    IF Len(s) > 0 /\ IsSpace(s[Len(s)])
      THEN trimEnd(SubSeq(s, 1, Len(s) - 1))
      ELSE s

\* String.prototype.trim()
trim(s) ==
    trimStart(trimEnd(s))

\* responseText.split(/\r?\n/); cur is the line being collected
RECURSIVE splitLines(_, _)
splitLines(s, cur) ==
    IF Len(s) = 0 THEN <<cur>>
    ELSE IF Head(s).t = "nl"
      THEN <<cur>> \o splitLines(Tail(s), <<>>)
    ELSE IF Head(s).t = "cr" /\ Len(s) >= 2 /\ s[2].t = "nl"
      THEN <<cur>> \o splitLines(Tail(Tail(s)), <<>>)
    ELSE splitLines(Tail(s), Append(cur, Head(s)))

\* Mutant: every data: line starts the event afresh, so only the last
\* fragment of an event is kept.
joinLines_LastOnly(fragments) ==
    IF Len(fragments) = 0 THEN <<>> ELSE fragments[Len(fragments)]

\* currentEventData.join('\n')
RECURSIVE joinLines(_)
joinLines(fragments) ==
    IF Len(fragments) = 0 THEN <<>>
    ELSE IF Len(fragments) = 1 THEN fragments[1]
    ELSE fragments[1] \o <<NL>> \o joinLines(Tail(fragments))

\* trimmedLine.startsWith('data:')
startsWithData(line) ==
    Len(line) > 0 /\ line[1].t = "data:"

\* trimmed.startsWith('{')
startsWithBrace(text) ==
    Len(text) > 0 /\ text[1].t = "{"

\* payload === '[DONE]'
IsDoneLiteral(payload) ==
    Len(payload) = 1 /\ payload[1].t = "[DONE]"

----------------------------------------------------------------------------
(* JSON.parse on a text: blanks and line breaks between tokens are         *)
(* skipped; the text is an object when it is { member , member ... }.      *)

MemberTokens ==
    {"delta", "message", "usage", "error", "candidates", "usageMetadata"}

RECURSIVE skipSpace(_)
skipSpace(s) ==
    IF Len(s) = 0 THEN <<>>
    ELSE IF IsSpace(Head(s)) THEN skipSpace(Tail(s))
    ELSE <<Head(s)>> \o skipSpace(Tail(s))

\* member (, member)*
RECURSIVE IsMemberList(_)
IsMemberList(s) ==
    /\ Len(s) >= 1
    /\ s[1].t \in MemberTokens
    /\ \/ Len(s) = 1
       \/ /\ Len(s) >= 3
          /\ s[2].t = ","
          /\ IsMemberList(SubSeq(s, 3, Len(s)))

\* JSON.parse(text) does not throw
JsonParses(text) ==
    LET s == skipSpace(text)
    IN  /\ Len(s) >= 2
        /\ s[1].t = "{"
        /\ s[Len(s)].t = "}"
        /\ Len(s) = 2 \/ IsMemberList(SubSeq(s, 2, Len(s) - 1))

\* The members of the parsed object, in the order of the text.
JsonParse(text) ==
    SelectSeq(skipSpace(text), LAMBDA tok : tok.t \in MemberTokens)

\* The key a member token is stored under.
KeyOf(tok) ==
    IF tok.t \in {"delta", "message"} THEN "choices" ELSE tok.t

HasKey(data, key) ==
    \E i \in 1..Len(data) : KeyOf(data[i]) = key

\* data[key]: of members with the same key the last one wins.
Get(data, key) ==
    data[CHOOSE i \in 1..Len(data) :
             /\ KeyOf(data[i]) = key
             /\ \A j \in (i + 1)..Len(data) : KeyOf(data[j]) # key]

\* data.choices?.[0]?.delta?.content (undefined and '' are both falsy, <<>>)
deltaContent(data) ==
    IF HasKey(data, "choices") /\ Get(data, "choices").t = "delta"
      THEN Get(data, "choices").v
      ELSE <<>>

\* data.choices?.[0]?.message?.content || ''
messageContent(data) ==
    IF HasKey(data, "choices") /\ Get(data, "choices").t = "message"
      THEN Get(data, "choices").v
      ELSE <<>>

\* data.usage?.total_tokens
totalTokensOf(data) ==
    IF HasKey(data, "usage") THEN Get(data, "usage").n ELSE UndefinedNumber

\* data.candidates?.[0]?.content?.parts (undefined: <<>>)
partsOf(data) ==
    IF HasKey(data, "candidates") THEN Get(data, "candidates").v ELSE <<>>

\* data.usageMetadata?.totalTokenCount
totalTokenCountOf(data) ==
    IF HasKey(data, "usageMetadata")
      THEN Get(data, "usageMetadata").n
      ELSE UndefinedNumber

\* if (n) ... : a number is truthy when it is defined and not 0
TruthyNumber(n) ==
    n # UndefinedNumber /\ n # 0

----------------------------------------------------------------------------
(* extractResponseText and the two SSE decoders.  A Gemini part is         *)
(* [text, thought, thoughtSignature]; thought is "undefined", "false" or   *)
(* "true", thoughtSignature is "undefined" or a hash of the thinking       *)
(* content, text is a string (absent and '' are both falsy: <<>>).         *)

\* !p.thought
NotThought(p) ==
    p.thought # "true"

\* !p.thoughtSignature
NoThoughtSignature(p) ==
    p.thoughtSignature = "undefined"

\* Mutant: only the thought flag is tested, not the signature.
IsNonThinkingPart_FlagOnly(p) ==
    NotThought(p) /\ Len(p.text) > 0

\* p => !p.thought && !p.thoughtSignature && p.text
IsNonThinkingPart(p) ==
    NotThought(p) /\ NoThoughtSignature(p) /\ Len(p.text) > 0

\* nonThinkingParts.map(p => p.text).join('')
RECURSIVE joinTexts(_)
joinTexts(parts) ==
    IF Len(parts) = 0 THEN <<>>
    ELSE Head(parts).text \o joinTexts(Tail(parts))

extractResponseText(parts) ==
    IF Len(parts) = 0 THEN <<>>
    ELSE joinTexts(SelectSeq(parts, IsNonThinkingPart))

\* The decoder state: what was decoded so far and currentEventData.
NoEvents ==
    [content |-> <<>>, parts |-> <<>>, tokensUsed |-> UndefinedNumber,
     currentEventData |-> <<>>]

\* Mutant: the data lines of an event are cleared only after JSON.parse
\* accepted the payload.
openAIFlushEvent_KeepsInvalidData(st) ==
    IF Len(st.currentEventData) = 0 THEN st
    ELSE LET payload == trim(joinLines(st.currentEventData))
             cleared == [st EXCEPT !.currentEventData = <<>>]
         IN  IF Len(payload) = 0 \/ IsDoneLiteral(payload) THEN cleared
             ELSE IF ~JsonParses(payload) THEN st
             ELSE LET data == JsonParse(payload)
                      delta == deltaContent(data)
                  IN  [cleared EXCEPT
                         !.content = @ \o delta,
                         !.tokensUsed =
                             IF TruthyNumber(totalTokensOf(data))
                               THEN totalTokensOf(data) ELSE @]

\* flushEvent of parseOpenAISseStream
openAIFlushEvent(st) ==
    IF Len(st.currentEventData) = 0 THEN st
    ELSE LET payload == trim(joinLines(st.currentEventData))
             cleared == [st EXCEPT !.currentEventData = <<>>]
         IN  IF Len(payload) = 0 \/ IsDoneLiteral(payload) THEN cleared
             ELSE IF ~JsonParses(payload) THEN cleared
             ELSE LET data == JsonParse(payload)
                      delta == deltaContent(data)
                  IN  [cleared EXCEPT
                         !.content = @ \o delta,
                         !.tokensUsed =
                             IF TruthyNumber(totalTokensOf(data))
                               THEN totalTokensOf(data) ELSE @]

\* for (const line of lines) { ... } of parseOpenAISseStream
RECURSIVE openAILines(_, _)
openAILines(lines, st) ==
    IF Len(lines) = 0 THEN st
    ELSE LET trimmedLine == trimEnd(Head(lines))
         IN  openAILines(Tail(lines),
                 IF Len(trimmedLine) = 0 THEN openAIFlushEvent(st)
                 ELSE IF ~startsWithData(trimmedLine) THEN st
                 ELSE [st EXCEPT !.currentEventData =
                           Append(@, trimStart(Tail(trimmedLine)))])

\* Mutant: no fallback to the text as one JSON document.
openAIFallback_None(responseText, st) ==
    st

\* if (!content) { ... } : the text as a single JSON object
openAIFallback(responseText, st) ==
    IF Len(st.content) > 0 THEN st
    ELSE LET trimmed == trim(responseText)
         IN  IF startsWithBrace(trimmed) /\ JsonParses(trimmed)
               THEN LET data == JsonParse(trimmed)
                    IN  [st EXCEPT
                           !.content = messageContent(data),
                           !.tokensUsed =
                               IF TruthyNumber(totalTokensOf(data))
                                 THEN totalTokensOf(data) ELSE @]
               ELSE st

parseOpenAISseStream(responseText) ==
    LET st == openAIFallback(responseText,
                  openAIFlushEvent(
                      openAILines(splitLines(responseText, <<>>), NoEvents)))
    IN  [content |-> st.content, tokensUsed |-> st.tokensUsed]

\* flushEvent of parseGeminiSseStream
geminiFlushEvent(st) ==
    IF Len(st.currentEventData) = 0 THEN st
    ELSE LET payload == trim(joinLines(st.currentEventData))
             cleared == [st EXCEPT !.currentEventData = <<>>]
         IN  IF Len(payload) = 0 THEN cleared
             ELSE IF IsDoneLiteral(payload) THEN cleared
             ELSE IF ~JsonParses(payload) THEN cleared
             ELSE LET data == JsonParse(payload)
                  IN  [cleared EXCEPT
                         !.parts = @ \o partsOf(data),
                         !.tokensUsed =
                             IF TruthyNumber(totalTokenCountOf(data))
                               THEN totalTokenCountOf(data) ELSE @]

\* for (const rawLine of lines) { ... } of parseGeminiSseStream
RECURSIVE geminiLines(_, _)
geminiLines(lines, st) ==
    IF Len(lines) = 0 THEN st
    ELSE LET line == trimEnd(Head(lines))
         IN  geminiLines(Tail(lines),
                 IF Len(line) = 0 THEN geminiFlushEvent(st)
                 ELSE IF ~startsWithData(line) THEN st
                 ELSE [st EXCEPT !.currentEventData =
                           Append(@, trimStart(Tail(line)))])

\* if (allParts.length === 0) { ... } : the text as a single JSON object
geminiFallback(responseText, st) ==
    IF Len(st.parts) > 0 THEN st
    ELSE LET trimmed == trim(responseText)
         IN  IF startsWithBrace(trimmed) /\ JsonParses(trimmed)
               THEN LET data == JsonParse(trimmed)
                    IN  [st EXCEPT
                           !.parts = @ \o partsOf(data),
                           !.tokensUsed =
                               IF TruthyNumber(totalTokenCountOf(data))
                                 THEN totalTokenCountOf(data) ELSE @]
               ELSE st

parseGeminiSseStream(responseText) ==
    LET st == geminiFallback(responseText,
                  geminiFlushEvent(
                      geminiLines(splitLines(responseText, <<>>), NoEvents)))
    IN  [parts |-> st.parts, tokensUsed |-> st.tokensUsed]

----------------------------------------------------------------------------
(* The four query functions from the FetchResult on: what each returns or  *)
(* throws for a status and a body.                                         *)

NoError ==
    [name |-> "none", message |-> "", status |-> 0, detail |-> <<>>]

\* new Error(`Custom/<protocol> API error: ${result.status} - ${result.body}`)
ApiError(protocol, status, body) ==
    [name |-> "Error", message |-> protocol, status |-> status,
     detail |-> body]

\* What JSON.parse throws; its message is the engine's and names neither
\* the provider nor the HTTP status.
JsonSyntaxError ==
    [name |-> "SyntaxError", message |-> "Unexpected token", status |-> 0,
     detail |-> <<>>]

QueryReturns(content, tokensUsed) ==
    [kind |-> "return", content |-> content, tokensUsed |-> tokensUsed,
     error |-> NoError]

QueryThrows(error) ==
    [kind |-> "throw", content |-> <<>>, tokensUsed |-> UndefinedNumber,
     error |-> error]

\* Mutant: an empty content is an error.
queryOpenAIJsonMultiTurn_EmptyRaises(status, body) ==
    IF ~ResponseOk(status)
      THEN QueryThrows(ApiError("Custom/OpenAI API error: ", status, body))
    ELSE IF ~JsonParses(body) THEN QueryThrows(JsonSyntaxError)
    ELSE IF Len(messageContent(JsonParse(body))) = 0
      THEN QueryThrows(ApiError("Custom/OpenAI API error: ", status, body))
    ELSE QueryReturns(messageContent(JsonParse(body)),
                      totalTokensOf(JsonParse(body)))

queryOpenAIJsonMultiTurn(status, body) ==
    IF ~ResponseOk(status)
      THEN QueryThrows(ApiError("Custom/OpenAI API error: ", status, body))
    ELSE IF ~JsonParses(body) THEN QueryThrows(JsonSyntaxError)
    ELSE QueryReturns(messageContent(JsonParse(body)),
                      totalTokensOf(JsonParse(body)))

queryOpenAIJsonMultiTurnStream(status, body) ==
    IF ~ResponseOk(status)
      THEN QueryThrows(ApiError("Custom/OpenAI API error: ", status, body))
    ELSE LET decoded == parseOpenAISseStream(body)
         IN  IF Len(decoded.content) = 0
               THEN QueryReturns(<<>>, UndefinedNumber)
               ELSE QueryReturns(decoded.content, decoded.tokensUsed)

queryGeminiJsonMultiTurn(status, body) ==
    IF ~ResponseOk(status)
      THEN QueryThrows(ApiError("Custom/Gemini API error: ", status, body))
    ELSE IF ~JsonParses(body) THEN QueryThrows(JsonSyntaxError)
    ELSE LET parts == partsOf(JsonParse(body))
         IN  IF Len(parts) = 0
               THEN QueryReturns(<<>>, UndefinedNumber)
               ELSE QueryReturns(extractResponseText(parts),
                                 totalTokenCountOf(JsonParse(body)))

queryGeminiJsonMultiTurnStream(status, body) ==
    IF ~ResponseOk(status)
      THEN QueryThrows(ApiError("Custom/Gemini API error: ", status, body))
    ELSE LET decoded == parseGeminiSseStream(body)
         IN  IF Len(decoded.parts) = 0
               THEN QueryReturns(<<>>, UndefinedNumber)
               ELSE QueryReturns(extractResponseText(decoded.parts),
                                 decoded.tokensUsed)

\* The dispatch of queryJsonMultiTurn.
query(protocol, streaming, status, body) ==
    IF protocol = "gemini"
      THEN IF streaming THEN queryGeminiJsonMultiTurnStream(status, body)
           ELSE queryGeminiJsonMultiTurn(status, body)
      ELSE IF streaming THEN queryOpenAIJsonMultiTurnStream(status, body)
           ELSE queryOpenAIJsonMultiTurn(status, body)

----------------------------------------------------------------------------
(* The inputs of the decoders: parts arrays, and response texts written    *)
(* the ways providers and proxies write them.                              *)

\* Longest parts array the model draws.
MaxParts ==
    3

\* Most SSE events in one response text.
MaxEvents ==
    2

PartTexts ==
    {<<>>, <<"a">>, <<"b">>}

GeminiParts ==
    [text : PartTexts, thought : {"undefined", "false", "true"},
     thoughtSignature : {"undefined", "hash"}]

PartsArrays ==
    UNION {[1..n -> GeminiParts] : n \in 0..MaxParts}

Part(text) ==
    [text |-> text, thought |-> "undefined",
     thoughtSignature |-> "undefined"]

ThoughtPart(text) ==
    [text |-> text, thought |-> "true", thoughtSignature |-> "undefined"]

SignedPart(text) ==
    [text |-> text, thought |-> "undefined", thoughtSignature |-> "hash"]

\* An event is an object with members, the terminator, or a partial frame
\* (an object that is never closed).
ObjectEvent(members) ==
    [kind |-> "object", members |-> members]

DoneEvent ==
    [kind |-> "done", members |-> <<>>]

PartialEvent(members) ==
    [kind |-> "partial", members |-> members]

OpenAIEvents ==
    {ObjectEvent(<<Delta(<<"h">>)>>),
     ObjectEvent(<<Delta(<<"i">>), Usage(42)>>),
     ObjectEvent(<<ErrorMember("rate_limit", "Too many requests")>>),
     PartialEvent(<<Delta(<<"x">>)>>),
     DoneEvent}

GeminiEvents ==
    {ObjectEvent(<<Candidates(<<ThoughtPart(<<"t">>)>>)>>),
     ObjectEvent(<<Candidates(<<Part(<<"a">>)>>), UsageMetadata(123)>>),
     ObjectEvent(<<Candidates(<<SignedPart(<<"s">>), Part(<<"b">>)>>)>>),
     PartialEvent(<<Candidates(<<Part(<<"x">>)>>)>>),
     DoneEvent}

\* How an event is written:
\*   line   : data: <payload>
\*   tight  : data:<payload>
\*   pretty : the object spread over data: lines, one member a line, indented
\*   crlf   : as line, with a trailing blank and \r\n line ends
\*   named  : as line, after an event: line
Layouts ==
    {"line", "tight", "pretty", "crlf", "named"}

\* m1 , m2 , ... on one line
RECURSIVE commaSeparated(_)
commaSeparated(members) ==
    IF Len(members) = 0 THEN <<>>
    ELSE IF Len(members) = 1 THEN <<members[1]>>
    ELSE <<members[1], COMMA>> \o commaSeparated(Tail(members))

\* The payload of an event on one line.
OneLine(event) ==
    IF event.kind = "done" THEN <<DONE>>
    ELSE IF event.kind = "partial"
      THEN <<LBRACE>> \o commaSeparated(event.members)
      ELSE <<LBRACE>> \o commaSeparated(event.members) \o <<RBRACE>>

\* m1 , / m2 , / ... one member a fragment
RECURSIVE memberFragments(_)
memberFragments(members) ==
    IF Len(members) = 0 THEN <<>>
    ELSE IF Len(members) = 1 THEN <<(<<members[1]>>)>>
    ELSE <<(<<members[1], COMMA>>)>> \o memberFragments(Tail(members))

\* The fragments an event is sent in.
Fragments(event, layout) ==
    IF layout = "pretty" /\ event.kind = "object"
      THEN <<(<<LBRACE>>)>> \o memberFragments(event.members)
           \o <<(<<RBRACE>>)>>
      ELSE <<OneLine(event)>>

EndOfLine(layout) ==
    IF layout = "crlf" THEN <<SP, CR, NL>> ELSE <<NL>>

AfterData(layout) ==
    IF layout = "tight" THEN <<>>
    ELSE IF layout = "pretty" THEN <<SP, SP>>
    ELSE <<SP>>

RECURSIVE dataLines(_, _)
dataLines(fragments, layout) ==
    IF Len(fragments) = 0 THEN <<>>
    ELSE <<DATA>> \o AfterData(layout) \o Head(fragments)
         \o EndOfLine(layout) \o dataLines(Tail(fragments), layout)

\* The lines of one event, without the blank line that ends it.
EventText(event, layout) ==
    (IF layout = "named" THEN <<EVENT, SP, NL>> ELSE <<>>)
    \o dataLines(Fragments(event, layout), layout)

BlankLine(layout) ==
    IF layout = "crlf" THEN <<CR, NL>> ELSE <<NL>>

\* The text of a stream of [event, layout]; the last event is followed by a
\* blank line only when the stream is terminated.
RECURSIVE StreamText(_, _)
StreamText(stream, terminated) ==
    IF Len(stream) = 0 THEN <<>>
    ELSE EventText(Head(stream).event, Head(stream).layout)
         \o (IF Len(stream) > 1 \/ terminated
               THEN BlankLine(Head(stream).layout) ELSE <<>>)
         \o StreamText(Tail(stream), terminated)

\* The streams of at most MaxEvents events; a provider writes all the events
\* of a stream the same way.
Streams(events) ==
    UNION {{[i \in 1..n |-> [event |-> es[i], layout |-> l]] :
                es \in [1..n -> events], l \in Layouts} :
           n \in 0..MaxEvents}

\* Calls of extractResponseText and of the two SSE decoders.
ExtractCalls ==
    {[fn |-> "extractResponseText", parts |-> parts, stream |-> <<>>,
      terminated |-> TRUE, status |-> 200, text |-> <<>>] :
        parts \in PartsArrays}

SseCalls(fn, events) ==
    {[fn |-> fn, parts |-> <<>>, stream |-> stream, terminated |-> term,
      status |-> 200, text |-> StreamText(stream, term)] :
        stream \in Streams(events), term \in BOOLEAN}

\* Response bodies that are one JSON document, or no JSON at all.
OpenAIDocuments ==
    {<<LBRACE, Message(<<"o", "k">>), COMMA, Usage(12), RBRACE>>,
     <<LBRACE, Message(<<"o", "k">>), RBRACE, NL>>,
     <<LBRACE, Message(<<>>), COMMA, Usage(12), RBRACE>>,
     <<LBRACE, Usage(0), RBRACE>>,
     <<LBRACE, RBRACE>>,
     <<LBRACE,
       ErrorMember("rate_limit", "Too many requests"), RBRACE>>,
     <<HTML>>,
     <<>>}

GeminiDocuments ==
    {<<LBRACE, Candidates(<<Part(<<"o", "k">>)>>), COMMA,
       UsageMetadata(7), RBRACE>>,
     <<LBRACE, Candidates(<<ThoughtPart(<<"t">>), Part(<<"o", "k">>)>>),
       RBRACE>>,
     <<LBRACE, Candidates(<<ThoughtPart(<<"t">>)>>), COMMA,
       UsageMetadata(7), RBRACE>>,
     <<LBRACE, Candidates(<<>>), RBRACE>>,
     <<LBRACE, RBRACE>>,
     <<HTML>>,
     <<>>}

\* HTTP statuses of the responses the model draws.
Statuses ==
    {200, 204, 500}

QueryFunctions ==
    {"queryOpenAIJsonMultiTurn", "queryOpenAIJsonMultiTurnStream",
     "queryGeminiJsonMultiTurn", "queryGeminiJsonMultiTurnStream"}

\* The FetchResults handed to the four query functions.
DocumentCalls(fn, documents) ==
    {[fn |-> fn, parts |-> <<>>, stream |-> <<>>, terminated |-> TRUE,
      status |-> st, text |-> text] :
        st \in Statuses, text \in documents}

\* The streaming query functions hand the body to the SSE decoder as it is:
\* their bodies are the streams of at most one event.
StreamCalls(fn, events) ==
    {[fn |-> fn, parts |-> <<>>, stream |-> stream, terminated |-> TRUE,
      status |-> st, text |-> StreamText(stream, TRUE)] :
        stream \in {<<>>} \cup {<<w>> : w \in [event : events,
                                              layout : Layouts]},
        st \in {200, 500}}

QueryCalls ==
    DocumentCalls("queryOpenAIJsonMultiTurn", OpenAIDocuments)
    \cup DocumentCalls("queryOpenAIJsonMultiTurnStream", OpenAIDocuments)
    \cup StreamCalls("queryOpenAIJsonMultiTurnStream", OpenAIEvents)
    \cup DocumentCalls("queryGeminiJsonMultiTurn", GeminiDocuments)
    \cup DocumentCalls("queryGeminiJsonMultiTurnStream", GeminiDocuments)
    \cup StreamCalls("queryGeminiJsonMultiTurnStream", GeminiEvents)

DecoderCalls ==
    ExtractCalls
    \cup SseCalls("parseOpenAISseStream", OpenAIEvents)
    \cup SseCalls("parseGeminiSseStream", GeminiEvents)
    \cup DocumentCalls("parseOpenAISseStream", OpenAIDocuments)
    \cup DocumentCalls("parseGeminiSseStream", GeminiDocuments)
    \cup QueryCalls

ExtractResponseText ==
    /\ ppc = "input"
    /\ arg.fn = "extractResponseText"
    /\ ret' = extractResponseText(arg.parts)
    /\ ppc' = "done"
    /\ UNCHANGED <<arg, fetchVars, truncVars, sessVars, dbVars>>

ParseOpenAISseStream ==
    /\ ppc = "input"
    /\ arg.fn = "parseOpenAISseStream"
    /\ ret' = parseOpenAISseStream(arg.text)
    /\ ppc' = "done"
    /\ UNCHANGED <<arg, fetchVars, truncVars, sessVars, dbVars>>

ParseGeminiSseStream ==
    /\ ppc = "input"
    /\ arg.fn = "parseGeminiSseStream"
    /\ ret' = parseGeminiSseStream(arg.text)
    /\ ppc' = "done"
    /\ UNCHANGED <<arg, fetchVars, truncVars, sessVars, dbVars>>

\* One of the four query functions, from the FetchResult on.
QueryFromFetchResult ==
    /\ ppc = "input"
    /\ arg.fn \in QueryFunctions
    /\ ret' = query(IF arg.fn \in {"queryGeminiJsonMultiTurn",
                                    "queryGeminiJsonMultiTurnStream"}
                      THEN "gemini" ELSE "openai",
                    arg.fn \in {"queryOpenAIJsonMultiTurnStream",
                                "queryGeminiJsonMultiTurnStream"},
                    arg.status, arg.text)
    /\ ppc' = "done"
    /\ UNCHANGED <<arg, fetchVars, truncVars, sessVars, dbVars>>

InitDecode ==
    /\ arg \in DecoderCalls
    /\ ret = <<>>
    /\ ppc = "input"
    /\ FetcherOff
    /\ TruncationOff
    /\ SessionOff
    /\ DatabaseOff

NextDecode ==
    \/ ExtractResponseText
    \/ ParseOpenAISseStream
    \/ ParseGeminiSseStream
    \/ QueryFromFetchResult

SpecDecode ==
    InitDecode /\ [][NextDecode]_vars

----------------------------------------------------------------------------
(* Properties of the decoders.                                             *)

\* A part of internal reasoning.
IsThinking(p) ==
    p.thought = "true" \/ p.thoughtSignature # "undefined"

\* The texts of the parts that are not thinking parts, in array order.
RECURSIVE VisibleText(_)
VisibleText(parts) ==
    IF Len(parts) = 0 THEN <<>>
    ELSE (IF IsThinking(Head(parts)) THEN <<>> ELSE Head(parts).text)
         \o VisibleText(Tail(parts))

\* C19: the text assembled from a parts array is the concatenation, in array
\* order, of the texts of exactly the parts that have neither thought=true
\* nor a thoughtSignature (and have text); a thinking part contributes
\* nothing at any position.
Thm_C19_ThinkingPartsExcluded ==
    (ppc = "done" /\ arg.fn = "extractResponseText") =>
        ret = VisibleText(arg.parts)

\* C19 witness: a text part, then a thought part and a signed part that both
\* carry text; only the first part's text came out.
Wit_C19_ThinkingAfterText ==
    /\ ppc = "done"
    /\ arg.fn = "extractResponseText"
    /\ arg.parts = <<Part(<<"a">>), ThoughtPart(<<"b">>), SignedPart(<<"b">>)>>
    /\ ret = <<"a">>

\* What an event yields when its payload is read as JSON from one line.
EventData(event) ==
    IF event.kind # "done" /\ JsonParses(OneLine(event))
      THEN JsonParse(OneLine(event))
      ELSE <<>>

\* The deltas of the events, in stream order.
RECURSIVE ExpectedContent(_)
ExpectedContent(stream) ==
    IF Len(stream) = 0 THEN <<>>
    ELSE deltaContent(EventData(Head(stream).event))
         \o ExpectedContent(Tail(stream))

\* The parts of the events, in stream order.
RECURSIVE ExpectedParts(_)
ExpectedParts(stream) ==
    IF Len(stream) = 0 THEN <<>>
    ELSE partsOf(EventData(Head(stream).event))
         \o ExpectedParts(Tail(stream))

\* The token usage of the last event that reports one under the given key.
RECURSIVE ExpectedTokens(_, _)
ExpectedTokens(stream, key) ==
    IF Len(stream) = 0 THEN UndefinedNumber
    ELSE LET data == EventData(stream[Len(stream)].event)
             n == IF HasKey(data, key) THEN Get(data, key).n
                  ELSE UndefinedNumber
         IN  IF TruthyNumber(n) THEN n
             ELSE ExpectedTokens(SubSeq(stream, 1, Len(stream) - 1), key)

\* The text of the call is the SSE text of a stream of events.
IsSseCall ==
    arg.text = StreamText(arg.stream, arg.terminated)

\* C20: both SSE decoders rebuild each event from its consecutive data:
\* lines up to the next blank line and extract its fields as if its JSON had
\* been sent on one line, however the event is laid out; an event whose
\* payload is the literal [DONE] contributes nothing.
Thm_C20_EventsRebuilt ==
    /\ (ppc = "done" /\ arg.fn = "parseOpenAISseStream" /\ IsSseCall) =>
           /\ ret.content = ExpectedContent(arg.stream)
           /\ ret.tokensUsed = ExpectedTokens(arg.stream, "usage")
    /\ (ppc = "done" /\ arg.fn = "parseGeminiSseStream" /\ IsSseCall) =>
           /\ ret.parts = ExpectedParts(arg.stream)
           /\ ret.tokensUsed = ExpectedTokens(arg.stream, "usageMetadata")

\* C20 witness: an event spread over four data: lines that carries a delta
\* and the token usage, then [DONE]; the content is the delta and the usage
\* is that of the event.
Wit_C20_PrettyPrintedEvent ==
    /\ ppc = "done"
    /\ arg.fn = "parseOpenAISseStream"
    /\ Len(arg.stream) = 2
    /\ arg.stream[1] = [event |-> ObjectEvent(<<Delta(<<"i">>), Usage(42)>>),
                        layout |-> "pretty"]
    /\ arg.stream[2].event = DoneEvent
    /\ Len(splitLines(arg.text, <<>>)) >= 6
    /\ ret = [content |-> <<"i">>, tokensUsed |-> 42]

\* The body is one JSON object with a top-level error member.
HasErrorObject(text) ==
    JsonParses(text) /\ HasKey(JsonParse(text), "error")

\* `${code} - ${message}` of the error member of a JSON object
ErrorText(data) ==
    <<Get(data, "error").v[1], " - ", Get(data, "error").v[2]>>

\* C16: an OpenAI-shape response with HTTP 200 whose body carries a
\* top-level error object {code, message} makes the query throw the error
\* "Custom/OpenAI API error: <code> - <message>" instead of returning
\* content, and the streaming decoder reports "<code> - <message>" as its
\* error, with empty content, for a stream that carries such an event.
Orig_C16_ErrorObjectRaises ==
    /\ (/\ ppc = "done"
        /\ arg.fn = "queryOpenAIJsonMultiTurn"
        /\ arg.status = 200
        /\ HasErrorObject(arg.text)) =>
           /\ ret.kind = "throw"
           /\ ret.error.message = "Custom/OpenAI API error: "
           /\ ret.error.detail = ErrorText(JsonParse(arg.text))
    /\ (/\ ppc = "done"
        /\ arg.fn = "parseOpenAISseStream"
        /\ Len(arg.stream) = 2
        /\ HasErrorObject(OneLine(arg.stream[1].event))
        /\ arg.stream[2].event = DoneEvent) =>
           /\ ret.content = <<>>
           /\ "error" \in DOMAIN ret
           /\ ret.error = ErrorText(EventData(arg.stream[1].event))

\* C17: a non-streaming OpenAI-shape response with a 2xx status and a body
\* that is not valid JSON makes the query throw an error whose message is
\* "Custom/OpenAI API returned invalid JSON (status <status>)".
Orig_C17_InvalidJsonNamesStatus ==
    (/\ ppc = "done"
     /\ arg.fn = "queryOpenAIJsonMultiTurn"
     /\ ResponseOk(arg.status)
     /\ ~JsonParses(arg.text)) =>
        /\ ret.kind = "throw"
        /\ ret.error.message = "Custom/OpenAI API returned invalid JSON"
        /\ ret.error.status = arg.status

----------------------------------------------------------------------------
(* CustomAgent.startSession.  An action is one resumption of the async     *)
(* function (the call itself, the provider call settling,                  *)
(* processAgentResponse settling, the message iterator yielding or         *)
(* ending) together with the synchronous code up to the next await; the    *)
(* provider call in between is the fetcher above.  Prompts are sequences   *)
(* of the items they are built from.                                       *)

\* The modes ModeManager can have active: the first observation type, the
\* footer of the prompts and the structured language instruction.
ModeNames ==
    {"modeA", "modeB"}

ModeOf(name) ==
    IF name = "modeA"
      THEN [observation_types |-> <<"discovery">>, footer |-> <<>>,
            language_instruction |-> "LANGUAGE REQUIREMENTS: Mode A"]
      ELSE [observation_types |-> <<"bugfix">>,
            footer |-> <<"LANGUAGE REQUIREMENTS: Mode B">>,
            language_instruction |-> "LANGUAGE REQUIREMENTS: Mode B"]

\* Longest queue of pending messages the model draws.
MaxMessages ==
    2

\* A pending message; an observation carries the number of its prompt.
PendingMessage(id, type) ==
    [id |-> id, type |-> type,
     prompt_number |-> IF type = "observation" THEN id + 1
                       ELSE UndefinedNumber]

PendingQueues ==
    UNION {{[i \in 1..k |-> PendingMessage(i, types[i])] :
                types \in [1..k -> {"observation", "summarize"}]} :
           k \in 0..MaxMessages}

\* isAbortError(error): the error is an AbortError.
isAbortError(error) ==
    error = "AbortError"

\* shouldFallbackToClaude(error): the failure is the provider's (the request
\* failed on the network, or the provider answered with an error), not a
\* cancellation or a timeout.
shouldFallbackToClaude(error) ==
    error \in {"NetworkError", "ApiError"}

\* Mutant: the ids are reset, the list is left as it is.
resetProcessingMessagesToPending_KeepsList(ids, calls) ==
    [processingMessageIds |-> ids, resetToPending |-> calls \o ids]

\* resetProcessingMessagesToPending: resetToPending(id) for each id of the
\* list in order, then the list is emptied.
resetProcessingMessagesToPending(ids, calls) ==
    IF Len(ids) = 0
      THEN [processingMessageIds |-> ids, resetToPending |-> calls]
      ELSE [processingMessageIds |-> <<>>, resetToPending |-> calls \o ids]

\* Mutant: every error resets the claimed messages, the rethrown ones too.
Catch_ResetsBeforeRethrow(error, ids) ==
    LET reset == resetProcessingMessagesToPending(ids, resetToPending)
    IN  /\ processingMessageIds' = reset.processingMessageIds
        /\ resetToPending' = reset.resetToPending
        /\ IF ~isAbortError(error)
              /\ shouldFallbackToClaude(error) /\ fallbackAgent
             THEN /\ fallbackStartSession' =
                         Append(fallbackStartSession,
                                [error |-> error,
                                 processingMessageIds |->
                                     reset.processingMessageIds,
                                 resetToPending |-> reset.resetToPending])
                  /\ spc' = "fallback"
                  /\ sessionError' = "none"
             ELSE /\ spc' = "threw"
                  /\ sessionError' = error
                  /\ UNCHANGED fallbackStartSession

\* The catch block of startSession, entered with error while the list of
\* claimed ids is ids: an abort is rethrown; a provider-side failure with a
\* fallback agent resets the claimed messages and hands the session to the
\* fallback agent; anything else is rethrown.
Catch(error, ids) ==
    IF isAbortError(error)
      THEN /\ spc' = "threw"
           /\ sessionError' = error
           /\ processingMessageIds' = ids
           /\ UNCHANGED <<resetToPending, fallbackStartSession>>
    ELSE IF shouldFallbackToClaude(error) /\ fallbackAgent
      THEN LET reset == resetProcessingMessagesToPending(ids, resetToPending)
           IN  /\ processingMessageIds' = reset.processingMessageIds
               /\ resetToPending' = reset.resetToPending
               /\ fallbackStartSession' =
                      Append(fallbackStartSession,
                             [error |-> error,
                              processingMessageIds |->
                                  reset.processingMessageIds,
                              resetToPending |-> reset.resetToPending])
               /\ spc' = "fallback"
               /\ sessionError' = "none"
    ELSE /\ spc' = "threw"
         /\ sessionError' = error
         /\ processingMessageIds' = ids
         /\ UNCHANGED <<resetToPending, fallbackStartSession>>

\* The session-id resolution at the start of startSession: the database value
\* wins; without one, a session that has no id gets a synthetic one, which is
\* written to the database.
resolveMemorySessionId(inMemory, inDb) ==
    IF inDb # "null"
      THEN [memorySessionId |-> inDb, dbMemorySessionId |-> inDb]
    ELSE IF inMemory = "null"
      THEN [memorySessionId |-> "custom-1", dbMemorySessionId |-> "custom-1"]
    ELSE [memorySessionId |-> inMemory, dbMemorySessionId |-> inDb]

\* buildInitPromptJson / buildContinuationPromptJson
initPrompt(promptNumber, m) ==
    IF promptNumber = 1 THEN <<"init", m>>
    ELSE <<"continuation", m>>

\* mode.prompts.footer?.match(/LANGUAGE REQUIREMENTS:[^\n]+/)
languageInstruction(m) ==
    IF Len(ModeOf(m).footer) > 0 THEN ModeOf(m).footer[1] ELSE ""

\* The mode an observation prompt is built from (line 1429).
observationMode ==
    activeMode

\* The observation prompt with its JSON format reminder: the valid types and
\* the example type of the mode, and its language instruction.
observationPrompt(message, m) ==
    <<"observation", message.id, ModeOf(m).observation_types[1],
      languageInstruction(m)>>

\* buildSummaryPromptJson
summaryPrompt(message, m) ==
    <<"summary", message.id, m>>

UserMessage(content) ==
    [role |-> "user", content |-> content]

AssistantMessage(content) ==
    [role |-> "assistant", content |-> content]

Step(what, n) ==
    [step |-> what, n |-> n]

\* queryJsonMultiTurn up to the await of fetchWithTimeoutAndRetry: the
\* history h is truncated and a fresh call of the fetcher begins.
IssueQuery(h) ==
    /\ truncatedHistory' = truncateHistory(h, limits)
    /\ pc' = "idle"
    /\ signalListener' = FALSE
    /\ attempt' = 0
    /\ abortReason' = "null"
    /\ controllerAborted' = FALSE
    /\ totalTimer' = Disarmed
    /\ firstTokenTimer' = Disarmed
    /\ net' = NoPlan
    /\ now' = 0
    /\ firedTimer' = "none"
    /\ fetchCalls' = 0
    /\ requestsIssued' = 0
    /\ lastError' = "none"
    /\ outcome' = NoOutcome
    /\ attemptLog' = <<>>
    /\ cancel' = NoCancel
    /\ UNCHANGED <<config, maxRetries, signalGiven, signalAborted>>

Written(event, layout) ==
    [event |-> event, layout |-> layout]

\* The bodies the provider answers with, by protocol and streaming mode.
ResponseBodies(cfg, result) ==
    IF result.kind = "error" THEN {<<>>}
    ELSE IF ~result.ok THEN {<<HTML>>}
    ELSE IF cfg.protocol = "gemini"
      THEN IF cfg.streaming
             THEN {StreamText(
                       <<Written(ObjectEvent(<<Candidates(<<Part(<<"a">>)>>),
                                               UsageMetadata(123)>>),
                                 "pretty")>>, TRUE),
                   StreamText(
                       <<Written(ObjectEvent(
                                     <<Candidates(<<ThoughtPart(<<"t">>)>>)>>),
                                 "line")>>, TRUE),
                   <<>>}
             ELSE {<<LBRACE, Candidates(<<Part(<<"o", "k">>)>>), COMMA,
                     UsageMetadata(7), RBRACE>>,
                   <<LBRACE, Candidates(<<ThoughtPart(<<"t">>)>>), RBRACE>>,
                   <<LBRACE, Candidates(<<>>), RBRACE>>}
      ELSE IF cfg.streaming
             THEN {StreamText(
                       <<Written(ObjectEvent(<<Delta(<<"h">>)>>), "line"),
                         Written(DoneEvent, "line")>>, TRUE),
                   StreamText(<<Written(DoneEvent, "line")>>, TRUE),
                   <<>>}
             ELSE {<<LBRACE, Message(<<"o", "k">>), COMMA, Usage(12),
                     RBRACE>>,
                   <<LBRACE, Message(<<>>), COMMA, Usage(12), RBRACE>>,
                   <<LBRACE, RBRACE>>,
                   <<HTML>>}

\* What the session sees of a settled provider call: the name of what was
\* thrown, or the content returned.
ErrorName(error) ==
    IF error.name = "SyntaxError" THEN "SyntaxError" ELSE "ApiError"

QueryResponse(cfg, result, text) ==
    IF result.kind = "error"
      THEN [kind |-> "throw", content |-> <<>>, error |-> result.error,
            status |-> 0, text |-> text]
      ELSE LET q == query(cfg.protocol, cfg.streaming, result.status, text)
           IN  [kind |-> q.kind, content |-> q.content,
                error |-> IF q.kind = "throw" THEN ErrorName(q.error)
                          ELSE "none",
                status |-> result.status, text |-> text]

\* Mutant: the next message is taken while processAgentResponse is pending.
ReadyForNextMessage_NoAwait ==
    spc \in {"iterate", "process"}

\* The for-await loop asks the iterator for the next message only when the
\* body of the previous iteration has run to its end.
ReadyForNextMessage ==
    spc = "iterate"

\* startSession up to its first await: configuration, session-id resolution,
\* the mode, the first prompt, the first provider call.
StartSession ==
    /\ spc = "start"
    /\ IF ~customConfig.configured
         THEN /\ Catch("NotConfigured", processingMessageIds)
              /\ UNCHANGED <<fetchVars, history, truncatedHistory,
                             memorySessionId, dbMemorySessionId, mode, turn,
                             trace>>
         ELSE LET resolved == resolveMemorySessionId(memorySessionId,
                                                      dbMemorySessionId)
                  h == Append(history,
                              UserMessage(initPrompt(lastPromptNumber,
                                                     activeMode)))
              IN  /\ memorySessionId' = resolved.memorySessionId
                  /\ dbMemorySessionId' = resolved.dbMemorySessionId
                  /\ mode' = activeMode
                  /\ history' = h
                  /\ IssueQuery(h)
                  /\ turn' = [n |-> 1, kind |-> "init", id |-> 0]
                  /\ trace' = Append(trace, Step("prompt", 1))
                  /\ spc' = "query"
                  /\ UNCHANGED <<processingMessageIds, resetToPending,
                                 fallbackStartSession, sessionError>>
    /\ UNCHANGED <<limits, tpc, decVars, dbVars, customConfig, fallbackAgent,
                   lastPromptNumber, activeMode, pendingMessages,
                   confirmProcessed, response>>

\* The provider call settled: the query function decodes the FetchResult or
\* throws; startSession goes on to processAgentResponse, or, for an empty
\* first response, straight to the pending messages.
QueryCompletes ==
    /\ spc = "query"
    /\ pc \in {"returned", "thrown"}
    /\ \E text \in ResponseBodies(customConfig, outcome) :
         LET r == QueryResponse(customConfig, outcome, text)
             completed == Append(trace, Step("completed", turn.n))
         IN  /\ response' = r
             /\ IF r.kind = "throw"
                  THEN /\ Catch(r.error, processingMessageIds)
                       /\ trace' = completed
                  ELSE IF turn.kind = "init" /\ Len(r.content) = 0
                    THEN /\ spc' = "iterate"
                         /\ trace' = Append(completed,
                                            Step("processed", turn.n))
                         /\ UNCHANGED <<processingMessageIds, resetToPending,
                                        fallbackStartSession, sessionError>>
                  ELSE /\ spc' = "process"
                       /\ trace' = completed
                       /\ UNCHANGED <<processingMessageIds, resetToPending,
                                      fallbackStartSession, sessionError>>
    /\ UNCHANGED <<fetchVars, truncVars, decVars, dbVars, customConfig,
                   fallbackAgent,
                   memorySessionId, dbMemorySessionId, lastPromptNumber,
                   activeMode, mode, pendingMessages, confirmProcessed, turn>>

\* processAgentResponse settled: a non-empty response is in the history as
\* the assistant's message; when what it parsed was stored, the claimed
\* messages are confirmed and the list is emptied.
ProcessAgentResponse ==
    /\ spc = "process"
    /\ history' = IF Len(response.content) > 0
                    THEN Append(history, AssistantMessage(response.content))
                    ELSE history
    /\ \E stored \in BOOLEAN :
         IF stored
           THEN /\ confirmProcessed' = confirmProcessed \o processingMessageIds
                /\ processingMessageIds' = <<>>
           ELSE UNCHANGED <<confirmProcessed, processingMessageIds>>
    /\ trace' = Append(trace, Step("processed", turn.n))
    /\ spc' = "iterate"
    /\ UNCHANGED <<fetchVars, limits, truncatedHistory, tpc, decVars, dbVars,
                   customConfig, fallbackAgent, memorySessionId,
                   dbMemorySessionId, lastPromptNumber, activeMode, mode,
                   pendingMessages, resetToPending, fallbackStartSession,
                   turn, response, sessionError>>

\* The iterator yields a message: its id is claimed, its prompt is built and
\* appended, the provider is called.
IteratorYields ==
    /\ ReadyForNextMessage
    /\ Len(pendingMessages) > 0
    /\ LET message == Head(pendingMessages)
           ids == Append(processingMessageIds, message.id)
           prompt == IF message.type = "observation"
                       THEN observationPrompt(message, observationMode)
                       ELSE summaryPrompt(message, mode)
           h == Append(history, UserMessage(prompt))
       IN  /\ pendingMessages' = Tail(pendingMessages)
           /\ lastPromptNumber' =
                  IF message.type = "observation"
                     /\ message.prompt_number # UndefinedNumber
                    THEN message.prompt_number
                    ELSE lastPromptNumber
           /\ IF memorySessionId = "null"
                THEN /\ Catch("NoMemorySessionId", ids)
                     /\ UNCHANGED <<fetchVars, history, truncatedHistory,
                                    turn, trace>>
                ELSE /\ processingMessageIds' = ids
                     /\ history' = h
                     /\ IssueQuery(h)
                     /\ turn' = [n |-> turn.n + 1, kind |-> message.type,
                                 id |-> message.id]
                     /\ trace' = Append(trace, Step("prompt", turn.n + 1))
                     /\ spc' = "query"
                     /\ UNCHANGED <<resetToPending, fallbackStartSession,
                                    sessionError>>
    /\ UNCHANGED <<limits, tpc, decVars, dbVars, customConfig, fallbackAgent,
                   memorySessionId, dbMemorySessionId, activeMode, mode,
                   confirmProcessed, response>>

\* The iterator is done: startSession returns.
IteratorReturns ==
    /\ spc = "iterate"
    /\ Len(pendingMessages) = 0
    /\ spc' = "completed"
    /\ UNCHANGED <<fetchVars, truncVars, decVars, dbVars, customConfig,
                   fallbackAgent,
                   memorySessionId, dbMemorySessionId, lastPromptNumber,
                   activeMode, mode, pendingMessages, processingMessageIds,
                   resetToPending, confirmProcessed, fallbackStartSession,
                   turn, response, sessionError, trace>>

\* The user switches the active mode while the session runs.
ModeChanges ==
    /\ spc \in {"query", "process", "iterate"}
    /\ activeMode' \in ModeNames \ {activeMode}
    /\ UNCHANGED <<fetchVars, truncVars, decVars, dbVars, spc, customConfig,
                   fallbackAgent, memorySessionId, dbMemorySessionId,
                   lastPromptNumber, mode, pendingMessages,
                   processingMessageIds, resetToPending, confirmProcessed,
                   fallbackStartSession, turn, response, sessionError, trace>>

\* The session owner aborts session.abortController while no provider call
\* is under way (during one, ExternalAbort).
SessionAbort ==
    /\ spc \in {"process", "iterate"}
    /\ ~signalAborted
    /\ signalAborted' = TRUE
    /\ UNCHANGED <<config, maxRetries, signalGiven, signalListener, pc,
                   attempt, abortReason, controllerAborted, totalTimer,
                   firstTokenTimer, net, now, firedTimer, fetchCalls,
                   requestsIssued, lastError, outcome, attemptLog, cancel,
                   nonFetchVars>>

\* The sessions the model draws: every protocol and streaming mode with one
\* pending message; every queue of pending messages; every combination of
\* configuration, context limit, prompt number and session ids with at most
\* one observation pending; a configuration with timeouts and no pending
\* message.
SessionInput(c, p, s, q, t, l, n, m, d) ==
    [configured |-> c, protocol |-> p, streaming |-> s, queue |-> q,
     timeouts |-> t, limit |-> l, promptNumber |-> n, inMemory |-> m,
     inDb |-> d]

SessionInputs ==
    {SessionInput(TRUE, p, s, q, FALSE, 0, 1, "null", "null") :
        p \in {"openai", "gemini"}, s \in BOOLEAN,
        q \in {q \in PendingQueues : Len(q) = 1}}
    \cup {SessionInput(TRUE, "openai", FALSE, q, FALSE, 0, 1, "null", "null") :
        q \in PendingQueues}
    \cup {SessionInput(c, "openai", FALSE, q, FALSE, l, n, m, d) :
        c \in BOOLEAN, l \in {0, 2}, n \in {1, 2},
        m \in {"null", "sdk-9"}, d \in {"null", "db-1"},
        q \in {<<>>, <<PendingMessage(1, "observation")>>}}
    \cup {SessionInput(TRUE, "openai", FALSE, <<>>, TRUE, 0, 1, "null",
                       "null")}

InitSession ==
    /\ \E i \in SessionInputs :
         /\ customConfig = [configured |-> i.configured,
                            protocol |-> i.protocol,
                            streaming |-> i.streaming]
         /\ pendingMessages = i.queue
         /\ config = IF i.timeouts
                       THEN [firstTokenTimeoutSeconds |-> 1,
                             totalTimeoutSeconds |-> 10]
                       ELSE [firstTokenTimeoutSeconds |-> 0,
                             totalTimeoutSeconds |-> 0]
         /\ limits = [maxContextMessages |-> i.limit, maxTokens |-> 0]
         /\ lastPromptNumber = i.promptNumber
         /\ memorySessionId = i.inMemory
         /\ dbMemorySessionId = i.inDb
    /\ fallbackAgent \in BOOLEAN
    /\ activeMode \in ModeNames
    /\ spc = "start"
    /\ mode = "none"
    /\ processingMessageIds = <<>>
    /\ resetToPending = <<>>
    /\ confirmProcessed = <<>>
    /\ fallbackStartSession = <<>>
    /\ turn = NoTurn
    /\ response = NoResponse
    /\ sessionError = "none"
    /\ trace = <<>>
    /\ maxRetries = DefaultMaxRetries
    /\ signalGiven = TRUE
    /\ signalAborted = FALSE
    /\ signalListener = FALSE
    /\ pc = "off"
    /\ attempt = 0
    /\ abortReason = "null"
    /\ controllerAborted = FALSE
    /\ totalTimer = Disarmed
    /\ firstTokenTimer = Disarmed
    /\ net = NoPlan
    /\ now = 0
    /\ firedTimer = "none"
    /\ fetchCalls = 0
    /\ requestsIssued = 0
    /\ lastError = "none"
    /\ outcome = NoOutcome
    /\ attemptLog = <<>>
    /\ cancel = NoCancel
    /\ history = <<>>
    /\ truncatedHistory = <<>>
    /\ tpc = "off"
    /\ DecodersOff
    /\ DatabaseOff

NextSession ==
    \/ StartSession
    \/ QueryCompletes
    \/ ProcessAgentResponse
    \/ IteratorYields
    \/ IteratorReturns
    \/ ModeChanges
    \/ SessionAbort
    \/ Next

SpecSession ==
    InitSession /\ [][NextSession]_vars

----------------------------------------------------------------------------
(* Properties of startSession.                                             *)

Elements(seq) ==
    {seq[i] : i \in 1..Len(seq)}

Occurrences(seq, x) ==
    Cardinality({i \in 1..Len(seq) : seq[i] = x})

\* The ids the iterator has yielded that processAgentResponse has not
\* confirmed: the ids of the messages are their positions in the queue, and
\* turn n + 1 is the turn of message n.
Unconfirmed ==
    (1..(turn.n - 1)) \ Elements(confirmProcessed)

\* C12: when a provider call fails with an error eligible for fallback and a
\* fallback agent is set, the fallback agent's startSession is invoked,
\* exactly once; when it is invoked every id that was in
\* session.processingMessageIds has been reset to pending exactly once, no
\* other id has been reset, and the list is empty.  Nothing is reset on any
\* other path.
Thm_C12_ResetBeforeFallback ==
    /\ Len(fallbackStartSession) = (IF spc = "fallback" THEN 1 ELSE 0)
    /\ spc = "threw" => ~(fallbackAgent /\ shouldFallbackToClaude(sessionError))
    /\ spc # "fallback" => resetToPending = <<>>
    /\ spc = "fallback" =>
          /\ fallbackAgent
          /\ shouldFallbackToClaude(fallbackStartSession[1].error)
          /\ fallbackStartSession[1].processingMessageIds = <<>>
          /\ fallbackStartSession[1].resetToPending = resetToPending
          /\ processingMessageIds = <<>>
          /\ Elements(resetToPending) = Unconfirmed
          /\ \A id \in Unconfirmed : Occurrences(resetToPending, id) = 1

\* The second of two claimed messages fails on the network with the first
\* still unconfirmed: both are reset, in order, and the fallback agent takes
\* over with an empty list.
Wit_C12_TwoMessagesReset ==
    /\ spc = "fallback"
    /\ turn.n = 3
    /\ response.error = "NetworkError"
    /\ resetToPending = <<1, 2>>
    /\ processingMessageIds = <<>>
    /\ Len(fallbackStartSession) = 1

\* C13: when the session's abort signal fires during a provider call, the
\* fetcher makes no further attempt and throws AbortError, and startSession
\* rethrows it: the fallback agent is not invoked and nothing is reset,
\* whether or not a fallback agent is set and whether or not timeouts are
\* configured.
Thm_C13_CancellationPropagates ==
    (spc \notin {"off", "start"} /\ cancel.fired /\ Done) =>
        /\ outcome = Threw("AbortError")
        /\ LastAttempt.end = "AbortError"
        /\ fetchCalls = (IF cancel.at = "idle" THEN 1 ELSE cancel.calls)
        /\ spc \in {"query", "threw"}
        /\ spc = "threw" => sessionError = "AbortError"
        /\ fallbackStartSession = <<>>
        /\ resetToPending = <<>>

\* With timeouts configured and a fallback agent set, the first attempt timed
\* out and the session was aborted while the second attempt's body was being
\* received: startSession threw the AbortError.
Wit_C13_AbortDuringRetry ==
    /\ spc = "threw"
    /\ sessionError = "AbortError"
    /\ fallbackAgent
    /\ TimeoutConfigured
    /\ cancel.fired /\ cancel.at = "body"
    /\ Len(attemptLog) = 2
    /\ attemptLog[1].end = "TimeoutError"
    /\ fallbackStartSession = <<>>

StepOrder ==
    <<"prompt", "completed", "processed">>

UserMessages(h) ==
    {i \in 1..Len(h) : h[i].role = "user"}

StepsOf(what) ==
    {i \in 1..Len(trace) : trace[i].step = what}

\* C14: the turns of a session do not overlap: the steps of the session are
\* prompt 1, completed 1, processed 1, prompt 2, completed 2, ... in this
\* order, so that the prompt of turn n + 1 is appended and its request issued
\* only after the request of turn n has completed and its response has been
\* processed; the history holds one user message per prompt step, and a
\* request is on the wire only for the turn whose prompt is the last step.
Thm_C14_TurnsDoNotOverlap ==
    /\ \A i \in 1..Len(trace) :
          trace[i] = Step(StepOrder[((i - 1) % 3) + 1], ((i - 1) \div 3) + 1)
    /\ spc # "off" =>
          /\ Cardinality(UserMessages(history)) =
                 Cardinality(StepsOf("prompt"))
          /\ Len(history) - Cardinality(UserMessages(history)) <=
                 Cardinality(StepsOf("processed"))
          /\ (InFlight \/ pc \in {"idle", "attemptStart"}) =>
                 /\ spc = "query"
                 /\ trace[Len(trace)] = Step("prompt", turn.n)

\* Three turns ran to their end, one after the other, the second with an
\* empty response.
Wit_C14_ThreeTurnsInOrder ==
    /\ spc = "completed"
    /\ Len(trace) = 9
    /\ Len(history) = 5
    /\ history[3].role = "user" /\ history[4].role = "user"

ObservationPrompts(h) ==
    {i \in 1..Len(h) : h[i].role = "user" /\ h[i].content[1] = "observation"}

\* C15 (as stated): every observation prompt of a session is built from the
\* mode that was active when the session started: it names that mode's
\* observation type and carries the language instruction read from that
\* mode, even when the active mode changes between two turns.
Orig_C15_SessionStartMode ==
    \A i \in ObservationPrompts(history) :
        /\ history[i].content[3] = ModeOf(mode).observation_types[1]
        /\ history[i].content[4] = languageInstruction(mode)

\* A response text that is well formed, carries no error object and has no
\* visible text: every content it carries is empty and every part it
\* carries is a thinking part.
EmptyResponseText(text) ==
    /\ \A i \in 1..Len(text) : text[i].t \notin {"<html>", "error"}
    /\ \A i \in 1..Len(text) :
          /\ text[i].t \in {"delta", "message"} => Len(text[i].v) = 0
          /\ text[i].t = "candidates" => Len(VisibleText(text[i].v)) = 0

----------------------------------------------------------------------------
(* The SSE decoders on a body that is one JSON document.                   *)

\* The body is a single JSON object, as a provider that ignores the
\* streaming flag sends it.
IsJsonDocument(text) ==
    startsWithBrace(trim(text)) /\ JsonParses(trim(text))

\* No event of the body gave the OpenAI decoder any content.
NoDeltaInEvents ==
    ~IsSseCall \/ ExpectedContent(arg.stream) = <<>>

\* No event of the body gave the Gemini decoder any part.
NoPartsInEvents ==
    ~IsSseCall \/ ExpectedParts(arg.stream) = <<>>

\* The usage a document reports under the given key, when it is not 0.
DocumentTokens(text, key) ==
    LET data == JsonParse(trim(text))
    IN  IF HasKey(data, key) /\ TruthyNumber(Get(data, key).n)
          THEN Get(data, key).n
          ELSE UndefinedNumber

\* C21: when no SSE event of the body yields a usable fragment, each SSE
\* decoder parses the whole original text as one JSON document and extracts
\* content and token usage from it, so that a body that is a single JSON
\* object gives, through the streaming query functions, the same content as
\* through the non-streaming ones.
Thm_C21_SingleDocumentFallback ==
    /\ (/\ ppc = "done"
        /\ arg.fn = "parseOpenAISseStream"
        /\ NoDeltaInEvents
        /\ IsJsonDocument(arg.text)) =>
           /\ ret.content = messageContent(JsonParse(trim(arg.text)))
           /\ ExpectedTokens(arg.stream, "usage") = UndefinedNumber =>
                  ret.tokensUsed = DocumentTokens(arg.text, "usage")
    /\ (/\ ppc = "done"
        /\ arg.fn = "parseGeminiSseStream"
        /\ NoPartsInEvents
        /\ IsJsonDocument(arg.text)) =>
           /\ ret.parts = partsOf(JsonParse(trim(arg.text)))
           /\ ExpectedTokens(arg.stream, "usageMetadata") = UndefinedNumber =>
                  ret.tokensUsed = DocumentTokens(arg.text, "usageMetadata")
    /\ (/\ ppc = "done"
        /\ arg.fn = "queryOpenAIJsonMultiTurnStream"
        /\ ResponseOk(arg.status)
        /\ IsJsonDocument(arg.text)) =>
           /\ ret.kind = "return"
           /\ ret.content
                = queryOpenAIJsonMultiTurn(arg.status, arg.text).content
    /\ (/\ ppc = "done"
        /\ arg.fn = "queryGeminiJsonMultiTurnStream"
        /\ ResponseOk(arg.status)
        /\ IsJsonDocument(arg.text)) =>
           /\ ret.kind = "return"
           /\ ret.content
                = queryGeminiJsonMultiTurn(arg.status, arg.text).content

\* C21 witness: the OpenAI decoder was handed a JSON object without any
\* data: line, followed by a line break, and returned its message content.
Wit_C21_DocumentInsteadOfStream ==
    /\ ppc = "done"
    /\ arg.fn = "parseOpenAISseStream"
    /\ arg.text = <<LBRACE, Message(<<"o", "k">>), RBRACE, NL>>
    /\ ret.content = <<"o", "k">>

----------------------------------------------------------------------------
(* The JSON response parsers.  Here a text is a string read character by   *)
(* character; the character at a position is the string of length one      *)
(* there.  The backquote of a Markdown code fence is written ~ .           *)

\* text[i], counted from 1; the empty string past the end
charAt(text, i) ==
    IF i >= 1 /\ i <= Len(text) THEN SubSeq(text, i, i) ELSE ""

\* text.startsWith(word, i)
startsWithAt(text, i, word) ==
    /\ i >= 1
    /\ i + Len(word) - 1 <= Len(text)
    /\ SubSeq(text, i, i + Len(word) - 1) = word

\* text.indexOf(word, from), counted from 1; 0 when there is none
indexOf(text, word, from) ==
    LET found == {i \in from..Len(text) : startsWithAt(text, i, word)}
    IN  IF found = {} THEN 0
        ELSE CHOOSE i \in found : \A j \in found : i <= j

\* text.includes(word)
includes(text, word) ==
    indexOf(text, word, 1) # 0

Whitespace ==
    {" ", "\n", "\r", "\t"}

Digits ==
    {"0", "1", "2", "3", "4", "5", "6", "7", "8", "9"}

RECURSIVE skipWhitespace(_, _)
skipWhitespace(text, i) ==
    IF i <= Len(text) /\ charAt(text, i) \in Whitespace
      THEN skipWhitespace(text, i + 1)
      ELSE i

RECURSIVE lastNonWhitespace(_, _)
lastNonWhitespace(text, i) ==
    IF i >= 1 /\ charAt(text, i) \in Whitespace
      THEN lastNonWhitespace(text, i - 1)
      ELSE i

\* String.prototype.trim() on a string
trimString(text) ==
    SubSeq(text, skipWhitespace(text, 1), lastNonWhitespace(text, Len(text)))

----------------------------------------------------------------------------
(* JSON values and JSON.parse.  A value is a record: a string or a number  *)
(* carries its characters in str, an array its elements in elems, an       *)
(* object its keys and, at the same positions, its members' values.        *)
(* Numbers are unsigned integers.                                          *)

JsonValue(type, str, elems, keys) ==
    [type |-> type, str |-> str, elems |-> elems, keys |-> keys]

Undefined ==
    JsonValue("undefined", "", <<>>, <<>>)

JsonNull ==
    JsonValue("null", "", <<>>, <<>>)

JsonBoolean(literal) ==
    JsonValue("boolean", literal, <<>>, <<>>)

JsonNumber(digits) ==
    JsonValue("number", digits, <<>>, <<>>)

JsonString(s) ==
    JsonValue("string", s, <<>>, <<>>)

JsonArray(elems) ==
    JsonValue("array", "", elems, <<>>)

JsonObject(keys, elems) ==
    JsonValue("object", "", elems, keys)

\* What a parsing step gives: a value and the position after it.
Parsed(v, i) ==
    [ok |-> TRUE, v |-> v, i |-> i]

\* JSON.parse throws a SyntaxError.
SyntaxError ==
    [ok |-> FALSE, v |-> Undefined, i |-> 0]

\* The characters of a string literal from position i on, up to the closing
\* quote; acc is the string read so far.
RECURSIVE parseStringChars(_, _, _)
parseStringChars(text, i, acc) ==
    IF i > Len(text) THEN SyntaxError
    ELSE LET c == charAt(text, i)
         IN  IF c = "\"" THEN Parsed(JsonString(acc), i + 1)
             ELSE IF c = "\\"
               THEN IF charAt(text, i + 1) \in {"\"", "\\", "/"}
                      THEN parseStringChars(text, i + 2,
                                            acc \o charAt(text, i + 1))
                    ELSE IF charAt(text, i + 1) = "n"
                      THEN parseStringChars(text, i + 2, acc \o "\n")
                    ELSE SyntaxError
             ELSE IF c \in {"\n", "\r", "\t"} THEN SyntaxError
             ELSE parseStringChars(text, i + 1, acc \o c)

RECURSIVE digitsEnd(_, _)
digitsEnd(text, i) ==
    IF i <= Len(text) /\ charAt(text, i) \in Digits
      THEN digitsEnd(text, i + 1)
      ELSE i

parseNumber(text, i) ==
    LET j == digitsEnd(text, i)
    IN  IF j - i > 1 /\ charAt(text, i) = "0" THEN SyntaxError
        ELSE Parsed(JsonNumber(SubSeq(text, i, j - 1)), j)

RECURSIVE parseValue(_, _)
RECURSIVE parseMembers(_, _, _, _)
RECURSIVE parseElements(_, _, _)

\* What follows a member of an object, at position e: } or , and the next
\* member
afterMember(text, e, keys, elems) ==
    IF charAt(text, e) = "}" THEN Parsed(JsonObject(keys, elems), e + 1)
    ELSE IF charAt(text, e) = ","
      THEN parseMembers(text, skipWhitespace(text, e + 1), keys, elems)
    ELSE SyntaxError

\* The value v of the member with the given key was read.
memberValue(text, key, v, keys, elems) ==
    IF ~v.ok THEN SyntaxError
    ELSE afterMember(text, skipWhitespace(text, v.i),
                     Append(keys, key), Append(elems, v.v))

\* The key of a member was read; at position colon a : and the value follow.
memberKey(text, key, colon, keys, elems) ==
    IF charAt(text, colon) # ":" THEN SyntaxError
    ELSE memberValue(text, key, parseValue(text, colon + 1), keys, elems)

\* The string literal k of a key was read.
memberName(text, k, keys, elems) ==
    IF ~k.ok THEN SyntaxError
    ELSE memberKey(text, k.v.str, skipWhitespace(text, k.i), keys, elems)

\* "key": value (, "key": value)* } with the key expected at position i
parseMembers(text, i, keys, elems) ==
    IF charAt(text, i) # "\"" THEN SyntaxError
    ELSE memberName(text, parseStringChars(text, i + 1, ""), keys, elems)

\* What follows an element of an array, at position e: ] or , and the next
\* element
afterElement(text, e, elems) ==
    IF charAt(text, e) = "]" THEN Parsed(JsonArray(elems), e + 1)
    ELSE IF charAt(text, e) = "," THEN parseElements(text, e + 1, elems)
    ELSE SyntaxError

\* The element v of an array was read.
elementValue(text, v, elems) ==
    IF ~v.ok THEN SyntaxError
    ELSE afterElement(text, skipWhitespace(text, v.i), Append(elems, v.v))

\* value (, value)* ] from position i on
parseElements(text, i, elems) ==
    elementValue(text, parseValue(text, i), elems)

\* An object or an array whose opening bracket was read; j is the position
\* of what follows it.
parseBracketed(text, open, j) ==
    IF open = "{"
      THEN IF charAt(text, j) = "}"
             THEN Parsed(JsonObject(<<>>, <<>>), j + 1)
             ELSE parseMembers(text, j, <<>>, <<>>)
      ELSE IF charAt(text, j) = "]"
             THEN Parsed(JsonArray(<<>>), j + 1)
             ELSE parseElements(text, j, <<>>)

\* The value that begins at position i with the character c.
valueAt(text, i, c) ==
    IF c \in {"{", "["}
      THEN parseBracketed(text, c, skipWhitespace(text, i + 1))
    ELSE IF c = "\"" THEN parseStringChars(text, i + 1, "")
    ELSE IF c \in Digits THEN parseNumber(text, i)
    ELSE IF startsWithAt(text, i, "true")
      THEN Parsed(JsonBoolean("true"), i + 4)
    ELSE IF startsWithAt(text, i, "false")
      THEN Parsed(JsonBoolean("false"), i + 5)
    ELSE IF startsWithAt(text, i, "null") THEN Parsed(JsonNull, i + 4)
    ELSE SyntaxError

\* The value at position i, where the white space has been passed over.
valueFrom(text, i) ==
    valueAt(text, i, charAt(text, i))

\* A value, after optional white space, from position from on.
parseValue(text, from) ==
    valueFrom(text, skipWhitespace(text, from))

\* The value r was read from the beginning of the text; only white space may
\* follow it.
wholeText(text, r) ==
    IF r.ok /\ skipWhitespace(text, r.i) > Len(text) THEN r ELSE SyntaxError

\* JSON.parse(text): ok is FALSE when it throws
JSON_parse(text) ==
    wholeText(text, parseValue(text, 1))

\* data[key] of a value that is not null: of members with the same key the
\* last wins; undefined when there is none or data is no object
Property(data, key) ==
    IF data.type = "object" /\ \E i \in 1..Len(data.keys) : data.keys[i] = key
      THEN data.elems[CHOOSE i \in 1..Len(data.keys) :
                         /\ data.keys[i] = key
                         /\ \A j \in (i + 1)..Len(data.keys) :
                                data.keys[j] # key]
      ELSE Undefined

\* if (value)
Truthy(value) ==
    /\ value.type \notin {"undefined", "null"}
    /\ value # JsonBoolean("false")
    /\ value # JsonNumber("0")
    /\ value # JsonString("")

----------------------------------------------------------------------------
(* extractBalancedJsonFromIndex, extractBalancedJson and                   *)
(* preprocessJsonResponse.  A candidate is never the empty string, so the  *)
(* empty string stands for null.                                           *)

Null ==
    ""

\* Mutant: any closing bracket closes any opening bracket.
closes_AnyBracket(open, char) ==
    TRUE

\* char === expectedClose, with expectedClose = open === '{' ? '}' : ']'
closes(open, char) ==
    char = (IF open = "{" THEN "}" ELSE "]")

\* The character is passed over without looking at it as a bracket: it is
\* escaped, or it is inside a string literal.
skipped(char, inString, escape) ==
    escape \/ (inString /\ char # "\\" /\ char # "\"")

\* The variables of the for loop of extractBalancedJsonFromIndex; returned
\* is set once the loop was left by a return, result is what was returned.
Scanning(stack, inString, escape) ==
    [stack |-> stack, inString |-> inString, escape |-> escape,
     returned |-> FALSE, result |-> Null]

ReturnFrom(st, result) ==
    [st EXCEPT !.returned = TRUE, !.result = result]

\* One iteration of the for loop, at index i.
scanStep(text, startIdx, i, st) ==
    LET char == charAt(text, i)
    IN  IF skipped(char, st.inString, st.escape)
          THEN [st EXCEPT !.escape = FALSE]
        ELSE IF char = "\\" /\ st.inString THEN [st EXCEPT !.escape = TRUE]
        ELSE IF char = "\"" THEN [st EXCEPT !.inString = ~@]
        ELSE IF char \in {"{", "["}
          THEN [st EXCEPT !.stack = Append(@, char)]
        ELSE IF char \in {"}", "]"}
          THEN IF Len(st.stack) = 0 THEN ReturnFrom(st, Null)
               ELSE IF ~closes(st.stack[Len(st.stack)], char)
                 THEN ReturnFrom(st, Null)
               ELSE IF Len(st.stack) = 1
                 THEN ReturnFrom(st, SubSeq(text, startIdx, i))
               ELSE [st EXCEPT !.stack = SubSeq(@, 1, Len(@) - 1)]
        ELSE st

\* The iterations at the indexes lo..hi, in order, from the state st on.
RECURSIVE balancedScan(_, _, _, _, _)
balancedScan(text, startIdx, lo, hi, st) ==
    IF lo > hi \/ st.returned THEN st
    ELSE IF lo = hi THEN scanStep(text, startIdx, lo, st)
    ELSE balancedScan(text, startIdx, (lo + hi) \div 2 + 1, hi,
             balancedScan(text, startIdx, lo, (lo + hi) \div 2, st))

extractBalancedJsonFromIndex(text, startIdx) ==
    IF charAt(text, startIdx) \notin {"{", "["} THEN Null
    ELSE balancedScan(text, startIdx, startIdx + 1, Len(text),
             Scanning(<<charAt(text, startIdx)>>, FALSE, FALSE)).result

\* Mutant: a balanced candidate is taken without parsing it.
parsable_Unparsed(candidate) ==
    candidate

\* try { JSON.parse(candidate); return candidate } catch { }
parsable(candidate) ==
    IF candidate = Null THEN Null
    ELSE IF JSON_parse(candidate).ok THEN candidate
    ELSE Null

\* The candidate at index i when it is balanced and JSON.parse accepts it.
parsableCandidate(text, i) ==
    parsable(extractBalancedJsonFromIndex(text, i))

\* The candidate at the first of the indexes found.
firstCandidate(text, found) ==
    IF found = {} THEN Null
    ELSE parsableCandidate(text,
             CHOOSE i \in found : \A j \in found : i <= j)

\* scanFor of extractBalancedJson: the candidate at the first index that
\* has one
scanFor(text, startChar) ==
    firstCandidate(text, {i \in 1..Len(text) :
                             /\ charAt(text, i) = startChar
                             /\ parsableCandidate(text, i) # Null})

\* if (objectCandidate) return objectCandidate; the arrays after that
objectOrArray(text, allowArray, objectCandidate) ==
    IF objectCandidate # Null THEN objectCandidate
    ELSE IF allowArray THEN scanFor(text, "[")
    ELSE Null

extractBalancedJson(text, allowArray) ==
    objectOrArray(text, allowArray, scanFor(text, "{"))

\* three backquotes
Fence ==
    "~~~"

\* The position after the opening fence at position open and its optional
\* json tag.
afterFence(jsonText, open) ==
    IF startsWithAt(jsonText, open + 3, "json") THEN open + 7 ELSE open + 3

\* The text between the position after the opening fence and the next
\* fence, trimmed; the text itself when there is no such pair of fences.
fencedText(jsonText, open, after, close) ==
    IF open = 0 \/ close = 0 THEN jsonText
    ELSE trimString(SubSeq(jsonText, after, close - 1))

\* The closing fence of the block that begins after position after.
closingFence(jsonText, open, after) ==
    fencedText(jsonText, open, after, indexOf(jsonText, Fence, after))

\* codeBlockRegex.exec(jsonText) with the opening fence at position open
\* (0: there is none)
codeBlockFrom(jsonText, open) ==
    closingFence(jsonText, open, afterFence(jsonText, open))

\* jsonText after the code block was stripped: codeBlockMatch[1].trim()
stripCodeBlock(jsonText) ==
    codeBlockFrom(jsonText, indexOf(jsonText, Fence, 1))

\* return extracted || jsonText
extractedOr(extracted, jsonText) ==
    IF extracted # Null THEN extracted ELSE jsonText

\* The extraction from jsonText.
extractFrom(jsonText, allowArray) ==
    extractedOr(extractBalancedJson(jsonText, allowArray), jsonText)

preprocessJsonResponse(text, allowArray) ==
    extractFrom(stripCodeBlock(trimString(text)), allowArray)

----------------------------------------------------------------------------
(* parseSummaryJson and parseObservationsJson.  What a parser returns is   *)
(* modelled together with the records it hands to the logger, in order.    *)

\* One call of logger.debug, logger.warn or logger.error; rawText and
\* preprocessedText are those of the data argument ("" when it has none).
LogRecord(level, message, rawText, preprocessedText) ==
    [level |-> level, message |-> message, rawText |-> rawText,
     preprocessedText |-> preprocessedText]

\* Mutant: the preprocessed text is logged as the raw text.
ParseFailure_LogsPreprocessed(message, text, trimmedPreprocessed) ==
    LogRecord("error", message, trimmedPreprocessed, "")

\* logger.error in the catch block of a parser
ParseFailure(message, text, trimmedPreprocessed) ==
    LogRecord("error", message, text,
              IF trimmedPreprocessed # "" /\
                 trimmedPreprocessed # trimString(text)
                THEN trimmedPreprocessed ELSE "")

\* Mutant: the value is taken whatever its type.
stringOrNull_AnyValue(value) ==
    value

\* typeof value === 'string' ? value : null
stringOrNull(value) ==
    IF value.type = "string" THEN value ELSE JsonNull

\* Array.isArray(value) ? value.filter(typeof string) : []
stringsOf(value) ==
    IF value.type # "array" THEN <<>>
    ELSE LET kept == SelectSeq(value.elems, LAMBDA e : e.type = "string")
         IN  [i \in 1..Len(kept) |-> kept[i].str]

SummaryFields ==
    {"request", "investigated", "learned", "completed", "next_steps", "notes"}

\* The six fields of the summary read from the parsed data.
summaryOf(data) ==
    [f \in SummaryFields |-> stringOrNull(Property(data, f))]

\* return summary, after the warning when the five required fields are empty
summaryResult(summary) ==
    [value |-> "summary",
     summary |-> summary,
     log |-> IF \A f \in SummaryFields \ {"notes"} : ~Truthy(summary[f])
               THEN <<LogRecord("warn",
                        "JSON summary parsed but all fields are empty",
                        "", "")>>
               ELSE <<>>]

\* The body of the try block once JSON.parse(jsonText) has run: a
\* SyntaxError of JSON.parse and the TypeError of data.request on null are
\* caught alike.
summaryFrom(text, jsonText, parsed) ==
    IF ~parsed.ok \/ parsed.v.type = "null"
      THEN [value |-> "null",
            summary |-> [f \in SummaryFields |-> JsonNull],
            log |-> <<ParseFailure("Failed to parse JSON summary", text,
                                   trimString(jsonText))>>]
      ELSE summaryResult(summaryOf(parsed.v))

\* const data = JSON.parse(jsonText)
summaryOfText(text, jsonText) ==
    summaryFrom(text, jsonText, JSON_parse(jsonText))

parseSummaryJson(text) ==
    summaryOfText(text, preprocessJsonResponse(text, FALSE))

\* Mutant: an invalid type is kept as it is written.
resolveType_KeepsInvalid(obs, validTypes) ==
    IF Property(obs, "type").type = "string"
      THEN trimString(Property(obs, "type").str)
      ELSE validTypes[1]

\* finalType of a raw observation; validTypes[1] is fallbackType
resolveType(obs, validTypes) ==
    IF /\ Property(obs, "type").type = "string"
       /\ \E i \in 1..Len(validTypes) :
              validTypes[i] = trimString(Property(obs, "type").str)
      THEN trimString(Property(obs, "type").str)
      ELSE validTypes[1]

\* The type is a string that is not in the whitelist: logger.error is called.
invalidType(obs, validTypes) ==
    /\ Property(obs, "type").type = "string"
    /\ \A i \in 1..Len(validTypes) :
           validTypes[i] # trimString(Property(obs, "type").str)

\* Mutant: the type is left among the concepts.
cleanedConcepts_KeepsType(concepts, finalType) ==
    concepts

\* concepts.filter(c => c !== finalType)
cleanedConcepts(concepts, finalType) ==
    SelectSeq(concepts, LAMBDA c : c # finalType)

\* The record pushed for one raw observation whose type is finalType.
observationOfType(obs, finalType) ==
    [type |-> finalType,
     title |-> stringOrNull(Property(obs, "title")),
     subtitle |-> stringOrNull(Property(obs, "subtitle")),
     facts |-> stringsOf(Property(obs, "facts")),
     narrative |-> stringOrNull(Property(obs, "narrative")),
     concepts |-> cleanedConcepts(stringsOf(Property(obs, "concepts")),
                                  finalType),
     files_read |-> stringsOf(Property(obs, "files_read")),
     files_modified |-> stringsOf(Property(obs, "files_modified"))]

\* The record pushed for one raw observation.
ParsedObservation(obs, validTypes) ==
    observationOfType(obs, resolveType(obs, validTypes))

\* for (const raw of rawObservations) { ... }: typeof raw === 'object' holds
\* of objects and of arrays
RECURSIVE observationsOf(_, _, _)
observationsOf(rawObservations, validTypes, result) ==
    IF Len(rawObservations) = 0 THEN result
    ELSE LET raw == Head(rawObservations)
         IN  observationsOf(Tail(rawObservations), validTypes,
               IF raw.type \notin {"object", "array"} THEN result
               ELSE [observations |->
                         Append(result.observations,
                                ParsedObservation(raw, validTypes)),
                     log |->
                         IF invalidType(raw, validTypes)
                           THEN Append(result.log,
                                    LogRecord("error",
                                        "Invalid observation type", "", ""))
                           ELSE result.log])

\* Mutant: the sentinel is not looked for.
isSkipSentinel_Never(data) ==
    FALSE

\* typeof data === 'object' && data !== null && !Array.isArray(data) and
\* obj.skip === true
isSkipSentinel(data) ==
    data.type = "object" /\ Property(data, "skip") = JsonBoolean("true")

\* rawObservations of the three payload shapes
rawObservations(data) ==
    IF data.type = "array" THEN [found |-> TRUE, list |-> data.elems]
    ELSE IF /\ Truthy(Property(data, "observations"))
            /\ Property(data, "observations").type = "array"
      THEN [found |-> TRUE, list |-> Property(data, "observations").elems]
    ELSE IF Truthy(Property(data, "type"))
      THEN [found |-> TRUE, list |-> <<data>>]
    ELSE [found |-> FALSE, list |-> <<>>]

\* The observations of the raw observations found in the payload.
observationsFrom(raws, validTypes) ==
    IF ~raws.found
      THEN [observations |-> <<>>,
            log |-> <<LogRecord("warn",
                "JSON response has no observations", "", "")>>]
      ELSE observationsOf(raws.list, validTypes,
                          [observations |-> <<>>, log |-> <<>>])

\* The body of the function once JSON.parse(trimmed) has run.
observationsOfParsed(text, trimmed, parsed, validTypes) ==
    IF ~includes(trimmed, "{") /\ ~includes(trimmed, "[")
      THEN [observations |-> <<>>,
            log |-> <<LogRecord("debug",
                "Non-JSON response in JSON observation mode - treated as skip",
                "", "")>>]
    ELSE IF ~parsed.ok
      THEN [observations |-> <<>>,
            log |-> <<ParseFailure("Failed to parse JSON observations",
                                   text, trimmed)>>]
    ELSE IF isSkipSentinel(parsed.v)
      THEN [observations |-> <<>>,
            log |-> <<LogRecord("debug",
                "JSON observation skipped via sentinel", "", "")>>]
    ELSE observationsFrom(rawObservations(parsed.v), validTypes)

\* const trimmed = jsonText.trim(); const data = JSON.parse(trimmed)
observationsOfText(text, trimmed, validTypes) ==
    observationsOfParsed(text, trimmed, JSON_parse(trimmed), validTypes)

parseObservationsJson(text, validTypes) ==
    observationsOfText(text,
                       trimString(preprocessJsonResponse(text, TRUE)),
                       validTypes)

----------------------------------------------------------------------------
(* The inputs of the JSON parsers: response texts as language models and   *)
(* proxies write them, and the observation types of the active mode.       *)

\* The largest number of raw observations in one payload.
MaxObservations ==
    2

\* mode.observation_types.map(t => t.id) of the modes the model draws
Whitelists ==
    {<<"discovery">>, <<"bugfix", "discovery">>}

\* items.join(separator)
RECURSIVE joinWith(_, _)
joinWith(items, separator) ==
    IF Len(items) = 0 THEN ""
    ELSE IF Len(items) = 1 THEN items[1]
    ELSE items[1] \o separator \o joinWith(Tail(items), separator)

\* { member, member, ... } of the members that are written ("" is an
\* absent member)
ObjectText(members) ==
    "{" \o joinWith(SelectSeq(members, LAMBDA m : m # ""), ",") \o "}"

ArrayText(items) ==
    "[" \o joinWith(items, ",") \o "]"

TypeMembers ==
    {"", "\"type\":\"discovery\"", "\"type\":\" bugfix \"",
     "\"type\":\"bogus\"", "\"type\":5", "\"type\":\"\""}

ConceptsMembers ==
    {"", "\"concepts\":[\"discovery\",\"how-it-works\"]",
     "\"concepts\":[\"gotcha\",7,\"bugfix\",\"discovery\",\"gotcha\"]",
     "\"concepts\":\"discovery\""}

TitleMembers ==
    {"", "\"title\":\"ok\""}

\* Raw observation objects, one at a time.
ObservationObjects ==
    {ObjectText(<<t, title, c>>) :
        t \in TypeMembers, title \in TitleMembers, c \in ConceptsMembers}

\* The raw observations that are put into arrays.
ArrayElements ==
    {ObjectText(<<"\"type\":\"discovery\"", "\"title\":\"ok\"",
                  "\"concepts\":[\"discovery\",\"how-it-works\"]">>),
     ObjectText(<<"\"type\":\"bogus\"",
                  "\"concepts\":[\"gotcha\",7,\"bugfix\",\"discovery\",\"gotcha\"]">>),
     ObjectText(<<"\"title\":\"ok\"">>),
     ObjectText(<<"\"type\":\" bugfix \"", "\"concepts\":\"discovery\"">>),
     "7",
     "[]"}

ObservationArrays ==
    UNION {{ArrayText(items) : items \in [1..n -> ArrayElements]} :
           n \in 0..MaxObservations}

ObservationWrappers ==
    {"{\"observations\":" \o array \o "}" : array \in ObservationArrays}

\* Answers that carry no observation, and answers that cannot be parsed.
OtherAnswers ==
    {"{\"skip\":true}", " {\"skip\": true}\n", "~~~json\n{\"skip\":true}\n~~~",
     "{\"skip\":false}", "{\"skip\":\"true\"}",
     "{\"skip\":true,\"type\":\"discovery\"}",
     "Empty status checks are skipped.", "", "  \n", "~~~\nnothing\n~~~",
     "null", "42",
     "~~~json\n{\"type\":}\n~~~", "{\"type\":", "[1,", "\"a{b\"",
     " {\"type\": \n", "see [1] and {2}", "{\"title\":\"ok\"}",
     "{\"observations\":7}",
     "{\"type\":\"discovery\"}\n\"]}\n\"]}\""}

ObservationTexts ==
    ObservationObjects \cup ObservationArrays \cup ObservationWrappers
    \cup OtherAnswers

SummaryTexts ==
    {"{\"request\":\"r\",\"investigated\":\"i\",\"learned\":\"l\","
        \o "\"completed\":\"c\",\"next_steps\":\"s\",\"notes\":\"n\"}",
     "{\"request\":\"r\",\"learned\":\"l\"}",
     "{\"request\":5,\"learned\":null,\"notes\":\"n\",\"completed\":[\"c\"]}",
     "{\"request\":\"\"}",
     "{}",
     "{\"title\":\"ok\"}",
     "~~~json\n{\"request\":\"r\"}\n~~~",
     "Summary: {\"request\":\"r\"} done",
     "[{\"request\":\"r\"}]",
     "[1]", "7", "\"text\"", "true", "null", " null\n",
     "No summary.", "", "{\"request\":", "{\"request\":\"r\"]",
     "~~~json\n{\"request\":}\n~~~"}

\* Well-formed JSON objects, some with brackets and quotes inside strings.
WellFormedObjects ==
    {"{}", "{\"a\":1}", "{\"a\":\"}\"}", "{\"a\":\"q\\\"{[\"}",
     "{\"a\":[1,{\"b\":[]}], \"c\":\"]\"}",
     "{\"type\":\"discovery\",\"title\":\"ok\"}"}

\* Text before a JSON object: prose, stray brackets and quotes, a malformed
\* blob, the beginning of an enclosing object, a JSON object of its own.
Prefixes ==
    {"", "note: ", "{", "}", "]", "\"", "{\"", "[1,", "{\"a\":[1}\n",
     "{\"t\":\"x\",\"f\":[\"s/{\"t\":\"o\"],\"c\":[]}\n",
     "{\"a\":", "{} "}

\* Text after a JSON object.
Suffixes ==
    {"", "\n\"]}\n\"]}\"", "}", "]", " trailing", "\"", "{", "\n[]}"}

\* Candidates that are unbalanced or closed by the wrong bracket.
BrokenCandidates ==
    {"{\"a\":1]", "{\"a\":[1}", "{]", "{\"a\":1", "{\"a\":{\"b\":1}",
     "{\"a\":\"}", "{\"a\":\"x\\\"}", "{[}]"}

JsonCall(fn, text, startIdx, allowArray, validTypes, prefix, json, suffix) ==
    [fn |-> fn, text |-> text, startIdx |-> startIdx,
     allowArray |-> allowArray, validTypes |-> validTypes,
     prefix |-> prefix, json |-> json, suffix |-> suffix]

\* A JSON object between a prefix and a suffix.
EmbeddedCalls ==
    {JsonCall(fn, p \o j \o s, Len(p) + 1, allowArray, <<>>, p, j, s) :
        fn \in {"extractBalancedJson", "preprocessJsonResponse"},
        allowArray \in BOOLEAN,
        p \in Prefixes, j \in WellFormedObjects, s \in Suffixes}

\* A broken candidate, alone or before a JSON object.
BrokenCalls ==
    {JsonCall(fn, p \o " " \o j, 1, allowArray, <<>>, p \o " ", j, "") :
        fn \in {"extractBalancedJsonFromIndex", "extractBalancedJson",
                "preprocessJsonResponse"},
        allowArray \in BOOLEAN,
        p \in BrokenCandidates, j \in {"", "{\"b\":2}"}}

\* The balanced scan from the first character of a text.
FromIndexCalls ==
    {JsonCall("extractBalancedJsonFromIndex", j \o s, 1, FALSE, <<>>,
              "", j, s) :
        j \in WellFormedObjects \cup {"[1,[2]]", "x"}, s \in Suffixes}

ObservationCalls ==
    {JsonCall("parseObservationsJson", text, 1, TRUE, validTypes,
              "", "", "") :
        text \in ObservationTexts, validTypes \in Whitelists}

SummaryCalls ==
    {JsonCall("parseSummaryJson", text, 1, FALSE, <<>>, "", "", "") :
        text \in SummaryTexts}

\* Answers with a Markdown code fence: around the whole answer, with and
\* without the json tag; around the JSON after a sentence; after the JSON;
\* inside a string of the JSON.
FenceTexts ==
    {"~~~json\n{\"type\":\"discovery\"}\n~~~",
     "~~~\n{\"type\":\"discovery\"}\n~~~",
     " ~~~json\n[{\"type\":\"discovery\"}]\n~~~\n",
     "Here is the observation:\n~~~json\n{\"type\":\"discovery\"}\n~~~",
     "{\"type\":\"discovery\"}\n~~~\nnpm test\n~~~",
     "{\"type\":\"discovery\"}\nRun:\n~~~json\n{\"scripts\":{}}\n~~~",
     "{\"type\":\"discovery\",\"narrative\":\"run ~~~npm test~~~ first\"}",
     "{\"request\":\"fix ~~~json\\n{}\\n~~~ parsing\"}",
     "{\"type\":\"discovery\",\"title\":\"~~~ opens a fence\"}"}

FenceCalls ==
    {JsonCall("preprocessJsonResponse", text, 1, allowArray, <<>>,
              "", "", "") :
        text \in FenceTexts, allowArray \in BOOLEAN}

JsonCalls ==
    EmbeddedCalls \cup BrokenCalls \cup FromIndexCalls
    \cup ObservationCalls \cup SummaryCalls \cup FenceCalls

ExtractBalancedJsonFromIndex ==
    /\ ppc = "input"
    /\ arg.fn = "extractBalancedJsonFromIndex"
    /\ ret' = extractBalancedJsonFromIndex(arg.text, arg.startIdx)
    /\ ppc' = "done"
    /\ UNCHANGED <<arg, fetchVars, truncVars, sessVars, dbVars>>

ExtractBalancedJson ==
    /\ ppc = "input"
    /\ arg.fn = "extractBalancedJson"
    /\ ret' = extractBalancedJson(arg.text, arg.allowArray)
    /\ ppc' = "done"
    /\ UNCHANGED <<arg, fetchVars, truncVars, sessVars, dbVars>>

PreprocessJsonResponse ==
    /\ ppc = "input"
    /\ arg.fn = "preprocessJsonResponse"
    /\ ret' = preprocessJsonResponse(arg.text, arg.allowArray)
    /\ ppc' = "done"
    /\ UNCHANGED <<arg, fetchVars, truncVars, sessVars, dbVars>>

ParseObservationsJson ==
    /\ ppc = "input"
    /\ arg.fn = "parseObservationsJson"
    /\ ret' = parseObservationsJson(arg.text, arg.validTypes)
    /\ ppc' = "done"
    /\ UNCHANGED <<arg, fetchVars, truncVars, sessVars, dbVars>>

ParseSummaryJson ==
    /\ ppc = "input"
    /\ arg.fn = "parseSummaryJson"
    /\ ret' = parseSummaryJson(arg.text)
    /\ ppc' = "done"
    /\ UNCHANGED <<arg, fetchVars, truncVars, sessVars, dbVars>>

InitJson ==
    /\ arg \in JsonCalls
    /\ ret = <<>>
    /\ ppc = "input"
    /\ FetcherOff
    /\ TruncationOff
    /\ SessionOff
    /\ DatabaseOff

NextJson ==
    \/ ExtractBalancedJsonFromIndex
    \/ ExtractBalancedJson
    \/ PreprocessJsonResponse
    \/ ParseObservationsJson
    \/ ParseSummaryJson

SpecJson ==
    InitJson /\ [][NextJson]_vars

\* A call of one of the JSON functions has returned.
HasReturned(fn) ==
    ppc = "done" /\ arg.fn = fn

----------------------------------------------------------------------------
(* Properties of the Balanced-JSON Extractor.                              *)

\* The text of the call is a well-formed JSON object between a prefix and a
\* suffix.
IsEmbedded ==
    /\ arg.json # ""
    /\ arg.text = arg.prefix \o arg.json \o arg.suffix
    /\ JSON_parse(arg.json).ok
    /\ JSON_parse(arg.json).v.type = "object"

\* No { of the prefix begins a piece of the text that is valid JSON.
NoJsonFromPrefix ==
    \A i \in 1..Len(arg.prefix) :
        charAt(arg.text, i) = "{" =>
            \A j \in (i + 1)..Len(arg.text) :
                ~JSON_parse(SubSeq(arg.text, i, j)).ok

\* C22 as stated: for every well-formed JSON object embedded in arbitrary
\* prefix and suffix text, the extractor returns exactly that JSON substring.
Orig_C22_EmbeddedObjectReturned ==
    (HasReturned("extractBalancedJson") /\ IsEmbedded) =>
        ret = arg.json

\* C22, amended: for every well-formed JSON object embedded in prefix and
\* suffix text, the extractor returns exactly that JSON substring when no {
\* of the prefix begins a piece of the text that is itself valid JSON;
\* trailing garbage and a malformed blob before the object do not prevent
\* its extraction.
Thm_C22_EmbeddedObjectExtracted ==
    (HasReturned("extractBalancedJson") /\ IsEmbedded /\ NoJsonFromPrefix) =>
        ret = arg.json

\* C22 witness: a malformed blob that opens braces before the object and
\* garbage with closing brackets after it; the object came out.
Wit_C22_BlobBeforeGarbageAfter ==
    /\ HasReturned("extractBalancedJson")
    /\ arg.prefix = "{\"t\":\"x\",\"f\":[\"s/{\"t\":\"o\"],\"c\":[]}\n"
    /\ arg.json = "{\"type\":\"discovery\",\"title\":\"ok\"}"
    /\ arg.suffix = "\n[]}"
    /\ NoJsonFromPrefix
    /\ ret = arg.json

\* The first candidate of the text is one of the broken ones: it is never
\* closed, or a bracket of it is closed by the wrong one.
FirstCandidateBroken ==
    \E p \in BrokenCandidates : arg.prefix = p \o " "

\* No piece of the text that begins with an opening bracket the extractor
\* looks for is valid JSON.
NoJsonPiece(text, allowArray) ==
    \A i \in 1..Len(text) :
        charAt(text, i) \in (IF allowArray THEN {"{", "["} ELSE {"{"}) =>
            \A j \in (i + 1)..Len(text) : ~JSON_parse(SubSeq(text, i, j)).ok

\* C23: a candidate with unbalanced or mismatched brackets (such as an
\* object opened with { and closed with ]) has failed, and the extractor
\* goes on to the later candidates; brackets inside string literals and
\* after escaped quotes are not counted; when no candidate parses the
\* extractor returns null and preprocessing returns the text itself.
Thm_C23_BrokenCandidateSkipped ==
    /\ (HasReturned("extractBalancedJsonFromIndex") /\ FirstCandidateBroken) =>
           ret = Null
    /\ (/\ HasReturned("extractBalancedJsonFromIndex")
        /\ arg.json # ""
        /\ arg.text = arg.json \o arg.suffix
        /\ JSON_parse(arg.json).ok) =>
           ret = arg.json
    /\ (/\ HasReturned("extractBalancedJson")
        /\ FirstCandidateBroken
        /\ arg.json # ""
        /\ NoJsonFromPrefix) =>
           ret = arg.json
    /\ HasReturned("extractBalancedJson") =>
           /\ ret = Null <=> NoJsonPiece(arg.text, arg.allowArray)
           /\ ret # Null => JSON_parse(ret).ok
    /\ (/\ HasReturned("preprocessJsonResponse")
        /\ NoJsonPiece(arg.text, arg.allowArray)) =>
           ret = trimString(arg.text)

\* C23 witness: an object opened with { and closed with ], then a valid
\* object; the later object came out.
Wit_C23_MismatchThenValid ==
    /\ HasReturned("extractBalancedJson")
    /\ arg.prefix = "{\"a\":1] "
    /\ arg.json = "{\"b\":2}"
    /\ ret = "{\"b\":2}"

----------------------------------------------------------------------------
(* Properties of parseObservationsJson and parseSummaryJson.               *)

\* The text of the call read as one JSON document.
Payload ==
    JSON_parse(trimString(arg.text))

\* Every element of the list is a JSON object.
AllObjects(list) ==
    \A i \in 1..Len(list) : list[i].type = "object"

\* The observations returned are those of the raw observations, one for
\* each and in their order.
OnePerRawObservation(list) ==
    /\ Len(ret.observations) = Len(list)
    /\ \A i \in 1..Len(list) :
           ret.observations[i] = ParsedObservation(list[i], arg.validTypes)

\* C24: parseObservationsJson accepts three payload shapes and yields one
\* ParsedObservation per raw observation object, in order: a bare array of N
\* observation objects yields N observations, an object with an
\* observations array of N objects yields N, and a single object with a type
\* field yields one.
Orig_C24_ThreeShapes ==
    (HasReturned("parseObservationsJson") /\ Payload.ok) =>
        /\ (Payload.v.type = "array" /\ AllObjects(Payload.v.elems)) =>
               OnePerRawObservation(Payload.v.elems)
        /\ (/\ Payload.v.type = "object"
            /\ Property(Payload.v, "observations").type = "array"
            /\ AllObjects(Property(Payload.v, "observations").elems)) =>
               OnePerRawObservation(Property(Payload.v, "observations").elems)
        /\ (/\ Payload.v.type = "object"
            /\ Property(Payload.v, "observations").type # "array"
            /\ Property(Payload.v, "skip") # JsonBoolean("true")
            /\ Truthy(Property(Payload.v, "type"))) =>
               OnePerRawObservation(<<Payload.v>>)

\* logger.error was called.
ErrorLogged ==
    \E i \in 1..Len(ret.log) : ret.log[i].level = "error"

\* The text is the skip sentinel: an object whose skip member is true.
IsSentinel ==
    /\ Payload.ok
    /\ Payload.v.type = "object"
    /\ Property(Payload.v, "skip") = JsonBoolean("true")

\* The text contains neither { nor [.
IsPlainProse ==
    ~includes(arg.text, "{") /\ ~includes(arg.text, "[")

\* C25: parseObservationsJson returns the empty list, without logging an
\* error, for the sentinel {"skip":true} and for any text that contains
\* neither { nor [.
Thm_C25_SkipIsSilent ==
    (HasReturned("parseObservationsJson") /\ (IsSentinel \/ IsPlainProse)) =>
        /\ ret.observations = <<>>
        /\ ~ErrorLogged

\* C25 witness: the sentinel, here with a type member beside skip, was
\* answered with the empty list and one debug record.
Wit_C25_SentinelSkipped ==
    /\ HasReturned("parseObservationsJson")
    /\ arg.text = "{\"skip\":true,\"type\":\"discovery\"}"
    /\ ret.observations = <<>>
    /\ Len(ret.log) = 1
    /\ ret.log[1].level = "debug"

\* What JSON.parse is handed: the preprocessed text.
Preprocessed ==
    trimString(preprocessJsonResponse(arg.text, TRUE))

\* The text has a { or a [ and what JSON.parse is handed is not valid JSON.
CannotBeParsed ==
    /\ includes(Preprocessed, "{") \/ includes(Preprocessed, "[")
    /\ ~JSON_parse(Preprocessed).ok

\* C26: parseObservationsJson never throws to its caller: for every input
\* text it returns a list, and when the payload cannot be parsed it returns
\* the empty list after logging an error record whose rawText is the
\* untouched input text.
Thm_C26_ParseFailureLogged ==
    HasReturned("parseObservationsJson") =>
        /\ DOMAIN ret = {"observations", "log"}
        /\ Len(ret.observations) >= 0
        /\ CannotBeParsed =>
               /\ ret.observations = <<>>
               /\ Len(ret.log) = 1
               /\ ret.log[1].level = "error"
               /\ ret.log[1].rawText = arg.text

\* C26 witness: a fenced object that is not valid JSON; the error record
\* carries the text with its fences, and the preprocessed text beside it.
Wit_C26_FencedGarbageLogged ==
    /\ HasReturned("parseObservationsJson")
    /\ arg.text = "~~~json\n{\"type\":}\n~~~"
    /\ ret.observations = <<>>
    /\ ret.log[1].rawText = "~~~json\n{\"type\":}\n~~~"
    /\ ret.log[1].preprocessedText = "{\"type\":}"

\* The raw observation objects of a payload that is an object with an
\* observations array of objects, or a single object with a type.
ObservedRaws ==
    IF ~Payload.ok \/ Payload.v.type # "object" \/ IsSentinel THEN <<>>
    ELSE IF Property(Payload.v, "observations").type = "array"
      THEN IF AllObjects(Property(Payload.v, "observations").elems)
             THEN Property(Payload.v, "observations").elems
             ELSE <<>>
    ELSE IF Truthy(Property(Payload.v, "type")) THEN <<Payload.v>>
    ELSE <<>>

\* The entries of a whitelist.
Entries(validTypes) ==
    {validTypes[i] : i \in 1..Len(validTypes)}

\* The type of the raw observation is a string that, trimmed, is an entry
\* of the whitelist.
ValidAfterTrimming(raw) ==
    /\ Property(raw, "type").type = "string"
    /\ trimString(Property(raw, "type").str) \in Entries(arg.validTypes)

\* C27: with a non-empty whitelist the type of every observation returned
\* by parseObservationsJson is an entry of the whitelist: a type that is
\* valid after trimming is kept, trimmed, and any other type value is
\* replaced by the first entry of the whitelist.
Thm_C27_TypeInWhitelist ==
    (HasReturned("parseObservationsJson") /\ Len(arg.validTypes) > 0) =>
        /\ \A i \in 1..Len(ret.observations) :
               ret.observations[i].type \in Entries(arg.validTypes)
        /\ Len(ObservedRaws) > 0 =>
               /\ Len(ret.observations) = Len(ObservedRaws)
               /\ \A i \in 1..Len(ObservedRaws) :
                      ret.observations[i].type =
                          IF ValidAfterTrimming(ObservedRaws[i])
                            THEN trimString(
                                     Property(ObservedRaws[i], "type").str)
                            ELSE arg.validTypes[1]

\* C27 witness: a type with blanks around it that is in the whitelist, and
\* a type that is not; the first was kept trimmed, the second replaced by
\* the first entry of the whitelist.
Wit_C27_TrimmedKeptInvalidReplaced ==
    /\ HasReturned("parseObservationsJson")
    /\ arg.validTypes = <<"bugfix", "discovery">>
    /\ Len(ObservedRaws) = 2
    /\ Property(ObservedRaws[1], "type") = JsonString(" bugfix ")
    /\ Property(ObservedRaws[2], "type") = JsonString("bogus")
    /\ ret.observations[1].type = "bugfix"
    /\ ret.observations[2].type = "bugfix"

\* A diagnostic about the type was logged.
TypeDiagnosticLogged ==
    \E i \in 1..Len(ret.log) :
        ret.log[i].level \in {"warn", "error"}

\* C28: a JSON observation object whose type is missing behaves exactly like
\* one whose type is invalid: it is still emitted as an observation with the
\* first entry of the whitelist as its type, and a diagnostic is logged.
Orig_C28_MissingTypeLikeInvalid ==
    (/\ HasReturned("parseObservationsJson")
     /\ Payload.ok
     /\ Payload.v.type = "object"
     /\ Property(Payload.v, "observations").type = "array"
     /\ Len(Property(Payload.v, "observations").elems) = 1
     /\ AllObjects(Property(Payload.v, "observations").elems)
     /\ ~ValidAfterTrimming(Property(Payload.v, "observations").elems[1])) =>
        /\ Len(ret.observations) = 1
        /\ ret.observations[1].type = arg.validTypes[1]
        /\ TypeDiagnosticLogged

\* The strings among the elements of a JSON array, in order; none when the
\* value is no array.
RECURSIVE StringElements(_)
StringElements(elems) ==
    IF Len(elems) = 0 THEN <<>>
    ELSE (IF Head(elems).type = "string" THEN <<Head(elems).str>> ELSE <<>>)
         \o StringElements(Tail(elems))

\* The list without the occurrences of one string.
RECURSIVE Without(_, _)
Without(list, s) ==
    IF Len(list) = 0 THEN <<>>
    ELSE (IF Head(list) = s THEN <<>> ELSE <<Head(list)>>)
         \o Without(Tail(list), s)

\* C29: the concepts of every observation returned by parseObservationsJson
\* do not contain the observation's final type, and keep every other string
\* concept of the input in its original order.
Thm_C29_TypeNotAmongConcepts ==
    HasReturned("parseObservationsJson") =>
        /\ \A i \in 1..Len(ret.observations) :
               \A k \in 1..Len(ret.observations[i].concepts) :
                   ret.observations[i].concepts[k] # ret.observations[i].type
        /\ Len(ObservedRaws) > 0 =>
               \A i \in 1..Len(ObservedRaws) :
                   ret.observations[i].concepts =
                       Without(StringElements(
                                   Property(ObservedRaws[i], "concepts").elems),
                               ret.observations[i].type)

\* C29 witness: an observation whose type fell back to bugfix and whose
\* concepts held bugfix, a number and other strings, one of them twice.
Wit_C29_FallbackTypeRemoved ==
    /\ HasReturned("parseObservationsJson")
    /\ arg.validTypes = <<"bugfix", "discovery">>
    /\ Len(ObservedRaws) = 1
    /\ Property(ObservedRaws[1], "type") = JsonString("bogus")
    /\ StringElements(Property(ObservedRaws[1], "concepts").elems)
         = <<"gotcha", "bugfix", "discovery", "gotcha">>
    /\ ret.observations[1].type = "bugfix"
    /\ ret.observations[1].concepts = <<"gotcha", "discovery", "gotcha">>

\* What parseSummaryJson hands to JSON.parse, parsed.
ParsedSummaryText ==
    JSON_parse(preprocessJsonResponse(arg.text, FALSE))

\* The six fields of the record are the string-valued fields of the parsed
\* value, and null where the field is missing or not a string.
StringFieldsOrNull ==
    /\ DOMAIN ret.summary = SummaryFields
    /\ \A f \in SummaryFields :
           ret.summary[f] =
               IF Property(ParsedSummaryText.v, f).type = "string"
                 THEN JsonString(Property(ParsedSummaryText.v, f).str)
                 ELSE JsonNull

\* C30 as stated: parseSummaryJson returns null when the text holds no
\* parsable JSON, and otherwise one summary record of the string-valued
\* fields, also when all six fields are null.
Orig_C30_NullOnlyWhenUnparsable ==
    HasReturned("parseSummaryJson") =>
        IF ~ParsedSummaryText.ok
          THEN ret.value = "null"
          ELSE ret.value = "summary" /\ StringFieldsOrNull

\* C30, amended: parseSummaryJson never throws: it returns null when the
\* text holds no parsable JSON or when the JSON is the literal null, and
\* otherwise one summary record whose six fields are the string-valued
\* fields of the parsed value and null for any field that is missing or not
\* a string; the record is returned even when all six fields are null.
Thm_C30_SummaryOrNull ==
    HasReturned("parseSummaryJson") =>
        IF ~ParsedSummaryText.ok \/ ParsedSummaryText.v = JsonNull
          THEN /\ ret.value = "null"
               /\ Len(ret.log) = 1
               /\ ret.log[1].level = "error"
               /\ ret.log[1].rawText = arg.text
          ELSE ret.value = "summary" /\ StringFieldsOrNull

\* C30 witness: an object with none of the six fields; a record of six
\* nulls was returned, not null.
Wit_C30_AllFieldsNull ==
    /\ HasReturned("parseSummaryJson")
    /\ arg.text = "{\"title\":\"ok\"}"
    /\ ret.value = "summary"
    /\ \A f \in SummaryFields : ret.summary[f] = JsonNull

----------------------------------------------------------------------------
(* buildApiUrl.  URLs and model names are strings.                         *)

\* text.endsWith(word)
endsWith(text, word) ==
    startsWithAt(text, Len(text) - Len(word) + 1, word)

UpperCaseLetters ==
    "ABCDEFGHIJKLMNOPQRSTUVWXYZ"

LowerCaseLetters ==
    "abcdefghijklmnopqrstuvwxyz"

\* The lower-case letter of a character; the character itself when it is
\* not an upper-case letter.
lowerCaseChar(char) ==
    IF \E i \in 1..Len(UpperCaseLetters) : charAt(UpperCaseLetters, i) = char
      THEN charAt(LowerCaseLetters,
                  CHOOSE i \in 1..Len(UpperCaseLetters) :
                      charAt(UpperCaseLetters, i) = char)
      ELSE char

\* text.toLowerCase()
RECURSIVE toLowerCase(_)
toLowerCase(text) ==
    IF Len(text) = 0 THEN ""
    ELSE lowerCaseChar(charAt(text, 1))
         \o toLowerCase(SubSeq(text, 2, Len(text)))

\* text.replace(/word$/i, ''), word in lower case
withoutSuffixIgnoreCase(text, word) ==
    IF /\ Len(text) >= Len(word)
       /\ toLowerCase(SubSeq(text, Len(text) - Len(word) + 1, Len(text)))
              = word
      THEN SubSeq(text, 1, Len(text) - Len(word))
      ELSE text

\* baseUrl.replace(/\/+$/, '')
RECURSIVE withoutTrailingSlashes(_)
withoutTrailingSlashes(baseUrl) ==
    IF endsWith(baseUrl, "/")
      THEN withoutTrailingSlashes(SubSeq(baseUrl, 1, Len(baseUrl) - 1))
      ELSE baseUrl

\* model.replace(/^models\//, '')
cleanModel(model) ==
    IF startsWithAt(model, 1, "models/")
      THEN SubSeq(model, 8, Len(model))
      ELSE model

\* `:${action}${sseParam}`
geminiAction(streaming) ==
    IF streaming THEN ":streamGenerateContent?alt=sse"
    ELSE ":generateContent"

\* The Gemini branch of buildApiUrl.
geminiUrl(cleanBaseUrl, model, streaming) ==
    withoutSuffixIgnoreCase(
        withoutSuffixIgnoreCase(cleanBaseUrl, "/v1beta/models"), "/v1beta")
    \o "/v1beta/models/" \o cleanModel(model) \o geminiAction(streaming)

\* The OpenAI branch of buildApiUrl.
openAIUrl(cleanBaseUrl) ==
    IF endsWith(cleanBaseUrl, "/chat/completions") THEN cleanBaseUrl
    ELSE IF endsWith(cleanBaseUrl, "/v1")
      THEN cleanBaseUrl \o "/chat/completions"
    ELSE cleanBaseUrl \o "/v1/chat/completions"

buildApiUrl(baseUrl, protocol, model, streaming) ==
    IF protocol = "gemini"
      THEN geminiUrl(withoutTrailingSlashes(baseUrl), model, streaming)
      ELSE openAIUrl(withoutTrailingSlashes(baseUrl))

----------------------------------------------------------------------------
(* The inputs of buildApiUrl: the values of the setting apiUrl that users  *)
(* write, and the URLs the builder itself returns.                         *)

Hosts ==
    {"https://api.example.com", "http://localhost:8080/proxy"}

\* What a user appends to the host.
UrlPaths ==
    {"", "/", "//", "/v1", "/v1/", "/v1/chat/completions",
     "/v1/chat/completions/", "/chat/completions", "/api/v1",
     "/v1beta", "/v1beta/", "/V1Beta", "/v1beta/models", "/v1beta/models/",
     "/V1BETA/MODELS", "/v1beta/v1beta", "/v1beta/models/v1beta"}

ModelNames ==
    {"gemini-2.5-flash", "models/gemini-2.5-flash", "gpt-4o"}

UrlCall(host, baseUrl, protocol, model, streaming, fedBack) ==
    [fn |-> "buildApiUrl", host |-> host, baseUrl |-> baseUrl,
     protocol |-> protocol, model |-> model, streaming |-> streaming,
     fedBack |-> fedBack]

\* apiUrl as the user wrote it
WrittenUrlCalls ==
    {UrlCall(h, h \o p, protocol, m, s, FALSE) :
        h \in Hosts, p \in UrlPaths, protocol \in {"openai", "gemini"},
        m \in ModelNames, s \in BOOLEAN}

\* apiUrl is a URL the builder returned for the same protocol, model and
\* streaming flag
FedBackUrlCalls ==
    {UrlCall(c.host, buildApiUrl(c.baseUrl, c.protocol, c.model, c.streaming),
             c.protocol, c.model, c.streaming, TRUE) :
        c \in WrittenUrlCalls}

UrlCalls ==
    WrittenUrlCalls \cup FedBackUrlCalls

BuildApiUrl ==
    /\ ppc = "input"
    /\ arg.fn = "buildApiUrl"
    /\ ret' = buildApiUrl(arg.baseUrl, arg.protocol, arg.model, arg.streaming)
    /\ ppc' = "done"
    /\ UNCHANGED <<arg, fetchVars, truncVars, sessVars, dbVars>>

InitUrl ==
    /\ arg \in UrlCalls
    /\ ret = <<>>
    /\ ppc = "input"
    /\ FetcherOff
    /\ TruncationOff
    /\ SessionOff
    /\ DatabaseOff

NextUrl ==
    BuildApiUrl

SpecUrl ==
    InitUrl /\ [][NextUrl]_vars

----------------------------------------------------------------------------
(* Properties of buildApiUrl.                                              *)

\* The Gemini URL of a host for the model and the streaming flag of the call.
GeminiEndpoint ==
    arg.host \o "/v1beta/models/" \o cleanModel(arg.model)
    \o geminiAction(arg.streaming)

\* A bare host, a /v1beta-qualified host or a /v1beta/models-qualified host
\* was passed.
IsGeminiBaseVariant ==
    /\ arg.protocol = "gemini"
    /\ arg.baseUrl \in {arg.host, arg.host \o "/v1beta",
                        arg.host \o "/v1beta/models"}

\* A URL the builder returned was passed back for the given protocol.
FedBack(protocol) ==
    HasReturned("buildApiUrl") /\ arg.fedBack /\ arg.protocol = protocol

\* C31 (as stated): a URL that buildApiUrl returned, passed back as the base
\* URL for the same protocol, model and streaming flag, is returned
\* unchanged, for OpenAI and for Gemini; and a bare host, the host with
\* /v1beta and the host with /v1beta/models yield the same Gemini URL.
Orig_C31_IdempotentOnOwnOutput ==
    HasReturned("buildApiUrl") =>
        /\ arg.fedBack => ret = arg.baseUrl
        /\ IsGeminiBaseVariant => ret = GeminiEndpoint

\* The part of C31 the code keeps: the OpenAI endpoint is a fixed point, and
\* the three Gemini base variants yield one URL.
Aux_C31_OpenAIFixedPointGeminiVariants ==
    /\ FedBack("openai") => ret = arg.baseUrl
    /\ HasReturned("buildApiUrl") /\ IsGeminiBaseVariant =>
           ret = GeminiEndpoint

\* The Gemini endpoint passed back comes out with its path twice.
Aux_C31_GeminiDoubled ==
    FedBack("gemini") =>
        ret = arg.baseUrl \o "/v1beta/models/" \o cleanModel(arg.model)
              \o geminiAction(arg.streaming)

----------------------------------------------------------------------------
(* The session store: createSDKSession and updateMemorySessionId           *)
(* (services/sqlite/sessions/create.ts).  A database is the three tables   *)
(* the two functions touch.  A row of sdk_sessions is                      *)
(* [content_session_id, memory_session_id, project] and its id is its      *)
(* position (INTEGER PRIMARY KEY, rows are never deleted); a row of a      *)
(* child table is the memory_session_id it references.  NULL is "null".    *)
(* bun:sqlite is synchronous: a call runs to its end before anything else  *)
(* of the process runs, and other connections see what is committed.       *)

Database(sessions, obs, summaries) ==
    [sdk_sessions |-> sessions, observations |-> obs,
     session_summaries |-> summaries]

\* The database the variables hold.
db ==
    Database(sdk_sessions, observations, session_summaries)

\* The rows of sdk_sessions with the given content_session_id.
rowsOf(sessions, contentSessionId) ==
    {i \in DOMAIN sessions :
        sessions[i].content_session_id = contentSessionId}

\* The UNIQUE constraint of sdk_sessions.content_session_id: the INSERT
\* conflicts when a row has the value already.
conflictsUnique(sessions, contentSessionId) ==
    rowsOf(sessions, contentSessionId) # {}

\* Mutant: a plain INSERT into a table without the constraint.
insertOrIgnore_PlainInsert(sessions, contentSessionId, project) ==
    Append(sessions, [content_session_id |-> contentSessionId,
                      memory_session_id |-> "null",
                      project |-> project])

\* INSERT OR IGNORE INTO sdk_sessions (...) VALUES (?, NULL, ?, ...)
insertOrIgnore(sessions, contentSessionId, project) ==
    IF conflictsUnique(sessions, contentSessionId) THEN sessions
    ELSE Append(sessions, [content_session_id |-> contentSessionId,
                           memory_session_id |-> "null",
                           project |-> project])

\* if (project) UPDATE sdk_sessions SET project = ? WHERE
\* content_session_id = ? AND (project IS NULL OR project = '')
backfillProject(sessions, contentSessionId, project) ==
    IF project = "" THEN sessions
    ELSE [i \in DOMAIN sessions |->
             IF /\ sessions[i].content_session_id = contentSessionId
                /\ sessions[i].project = ""
               THEN [sessions[i] EXCEPT !.project = project]
               ELSE sessions[i]]

\* SELECT id FROM sdk_sessions WHERE content_session_id = ?  (.get(): the
\* first row)
selectId(sessions, contentSessionId) ==
    CHOOSE i \in rowsOf(sessions, contentSessionId) :
        \A j \in rowsOf(sessions, contentSessionId) : i <= j

\* createSDKSession: the table after the call and the id returned
createSDKSession(sessions, contentSessionId, project) ==
    [sdk_sessions |->
         backfillProject(insertOrIgnore(sessions, contentSessionId, project),
                         contentSessionId, project),
     id |-> selectId(insertOrIgnore(sessions, contentSessionId, project),
                     contentSessionId)]

\* UPDATE <child table> SET memory_session_id = ? WHERE memory_session_id = ?
updateChildren(rows, newId, oldId) ==
    [i \in DOMAIN rows |-> IF rows[i] = oldId THEN newId
                           ELSE rows[i]]

\* UPDATE sdk_sessions SET memory_session_id = ? WHERE id = ?
updateParent(sessions, newId, sessionDbId) ==
    [i \in DOMAIN sessions |->
        IF i = sessionDbId
          THEN [sessions[i] EXCEPT !.memory_session_id = newId]
          ELSE sessions[i]]

\* The n-th statement of the cascade: observations, session_summaries,
\* sdk_sessions.
cascadeStatement(n, d, sessionDbId, newId, oldId) ==
    IF n = 1
      THEN [d EXCEPT !.observations = updateChildren(@, newId, oldId)]
    ELSE IF n = 2
      THEN [d EXCEPT !.session_summaries =
                         updateChildren(@, newId, oldId)]
    ELSE [d EXCEPT !.sdk_sessions =
                       updateParent(@, newId, sessionDbId)]

\* The database after the first n statements of the cascade.
RECURSIVE afterStatements(_, _, _, _, _)
afterStatements(n, d, sessionDbId, newId, oldId) ==
    IF n = 0 THEN d
    ELSE cascadeStatement(n,
             afterStatements(n - 1, d, sessionDbId, newId, oldId),
             sessionDbId, newId, oldId)

\* The statements of the cascade.
CascadeLength ==
    3

\* Mutant: the statements run outside a transaction; what ran before the
\* failing statement stays.
transaction_NoRollback(d, failAt, sessionDbId, newId, oldId) ==
    IF failAt = 0
      THEN [db |-> afterStatements(CascadeLength, d, sessionDbId,
                                   newId, oldId),
            threw |-> FALSE]
      ELSE [db |-> afterStatements(failAt - 1, d, sessionDbId,
                                   newId, oldId),
            threw |-> TRUE]

\* db.transaction(() => { ... })(): the statements are committed together;
\* when statement failAt throws (0: none does) the transaction is rolled
\* back and the error is thrown on.
transaction(d, failAt, sessionDbId, newId, oldId) ==
    IF failAt = 0
      THEN [db |-> afterStatements(CascadeLength, d, sessionDbId,
                                   newId, oldId),
            threw |-> FALSE]
      ELSE [db |-> d, threw |-> TRUE]

\* existing?.memory_session_id of the row with the id: "undefined" when
\* there is no such row
existingMemorySessionId(sessions, sessionDbId) ==
    IF sessionDbId \in DOMAIN sessions
      THEN sessions[sessionDbId].memory_session_id
      ELSE "undefined"

\* existing?.memory_session_id && existing.memory_session_id !==
\* memorySessionId (newId)
mustCascade(existing, newId) ==
    existing \notin {"undefined", "null", ""} /\ existing # newId

\* updateMemorySessionId: the database after the call, and whether it threw.
\* failAt is the statement that fails (0: none).
updateMemorySessionId(d, sessionDbId, newId, failAt) ==
    IF mustCascade(existingMemorySessionId(d.sdk_sessions, sessionDbId),
                   newId)
      THEN transaction(d, failAt, sessionDbId, newId,
                       existingMemorySessionId(d.sdk_sessions, sessionDbId))
    ELSE IF failAt = 0
      THEN [db |-> [d EXCEPT !.sdk_sessions =
                        updateParent(@, newId, sessionDbId)],
            threw |-> FALSE]
    ELSE [db |-> d, threw |-> TRUE]

----------------------------------------------------------------------------
(* The calls on the session store.  The hooks and the agents call          *)
(* createSDKSession and updateMemorySessionId in any order; the            *)
(* persistence sink stores observations and summaries under the            *)
(* memory_session_id of a session.                                         *)

\* The largest number of calls of createSDKSession and
\* updateMemorySessionId.
MaxCalls ==
    4

\* The largest number of rows of a child table.
MaxRows ==
    2

ContentSessionIds ==
    {"content-1", "content-2"}

MemorySessionIds ==
    {"memory-1", "memory-2"}

Projects ==
    {"", "claude-mem"}

\* The last call on the store: its arguments, the database before it,
\* existing?.memory_session_id as updateMemorySessionId read it, the id
\* createSDKSession returned, whether the call threw, and the number of
\* calls of the two functions so far.
StoreCall(fn, before, contentSessionId, sessionDbId, newId, existing, id,
          threw, n) ==
    [fn |-> fn, before |-> before, contentSessionId |-> contentSessionId,
     sessionDbId |-> sessionDbId, newId |-> newId, existing |-> existing,
     id |-> id, threw |-> threw, n |-> n]

NoStoreCall ==
    StoreCall("none", Database(<<>>, <<>>, <<>>), "", 0, "", "undefined", 0,
              FALSE, 0)

CreateSDKSession ==
    /\ dbCall.fn # "off"
    /\ dbCall.n < MaxCalls
    /\ \E contentSessionId \in ContentSessionIds, project \in Projects :
         /\ sdk_sessions' =
                createSDKSession(sdk_sessions, contentSessionId,
                                 project).sdk_sessions
         /\ returnedIds' =
                [returnedIds EXCEPT ![contentSessionId] = @ \cup
                    {createSDKSession(sdk_sessions, contentSessionId,
                                      project).id}]
         /\ dbCall' =
                StoreCall("createSDKSession", db, contentSessionId, 0, "",
                          "undefined",
                          createSDKSession(sdk_sessions, contentSessionId,
                                           project).id,
                          FALSE, dbCall.n + 1)
    /\ UNCHANGED <<observations, session_summaries, fetchVars, truncVars,
                   decVars, sessVars>>

\* The tables after a call of updateMemorySessionId that ended with result.
UpdateEnds(result, sessionDbId, newId) ==
    /\ sdk_sessions' = result.db.sdk_sessions
    /\ observations' = result.db.observations
    /\ session_summaries' = result.db.session_summaries
    /\ dbCall' =
           StoreCall("updateMemorySessionId", db, "", sessionDbId, newId,
                     existingMemorySessionId(sdk_sessions, sessionDbId), 0,
                     result.threw, dbCall.n + 1)

UpdateMemorySessionId ==
    /\ dbCall.fn # "off"
    /\ dbCall.n < MaxCalls
    /\ \E sessionDbId \in 1..(Len(sdk_sessions) + 1),
          newId \in MemorySessionIds, failAt \in 0..CascadeLength :
         UpdateEnds(updateMemorySessionId(db, sessionDbId, newId, failAt),
                    sessionDbId, newId)
    /\ UNCHANGED <<returnedIds, fetchVars, truncVars, decVars, sessVars>>

\* The memory_session_id values the sessions have.
RegisteredMemorySessionIds ==
    {sdk_sessions[i].memory_session_id : i \in DOMAIN sdk_sessions}
    \ {"null"}

\* The persistence sink stores an observation of a session.
StoreObservation ==
    /\ dbCall.fn # "off"
    /\ Len(observations) < MaxRows
    /\ \E m \in RegisteredMemorySessionIds :
         observations' = Append(observations, m)
    /\ dbCall' = StoreCall("storeObservation", db, "", 0, "", "undefined", 0,
                           FALSE, dbCall.n)
    /\ UNCHANGED <<sdk_sessions, session_summaries, returnedIds, fetchVars,
                   truncVars, decVars, sessVars>>

\* The persistence sink stores the summary of a session.
StoreSummary ==
    /\ dbCall.fn # "off"
    /\ Len(session_summaries) < MaxRows
    /\ \E m \in RegisteredMemorySessionIds :
         session_summaries' = Append(session_summaries, m)
    /\ dbCall' = StoreCall("storeSummary", db, "", 0, "", "undefined", 0,
                           FALSE, dbCall.n)
    /\ UNCHANGED <<sdk_sessions, observations, returnedIds, fetchVars,
                   truncVars, decVars, sessVars>>

InitStore ==
    /\ sdk_sessions = <<>>
    /\ observations = <<>>
    /\ session_summaries = <<>>
    /\ dbCall = NoStoreCall
    /\ returnedIds = [c \in ContentSessionIds |-> {}]
    /\ FetcherOff
    /\ TruncationOff
    /\ DecodersOff
    /\ SessionOff

NextStore ==
    \/ CreateSDKSession
    \/ UpdateMemorySessionId
    \/ StoreObservation
    \/ StoreSummary

SpecStore ==
    InitStore /\ [][NextStore]_vars

----------------------------------------------------------------------------
(* Properties of the session store.                                        *)

\* createSDKSession or updateMemorySessionId has just returned or thrown.
JustCalled(fn) ==
    dbCall.fn = fn

ChangedFromOldToNew ==
    /\ JustCalled("updateMemorySessionId")
    /\ dbCall.existing \notin {"undefined", "null"}
    /\ dbCall.existing # dbCall.newId
    /\ sdk_sessions[dbCall.sessionDbId].memory_session_id = dbCall.newId

\* Every row that referenced the old value references the new one, and no
\* row references the old value.
ChildrenMoved(before, after) ==
    /\ \A i \in DOMAIN before :
           before[i] = dbCall.existing => after[i] = dbCall.newId
    /\ \A i \in DOMAIN after : after[i] # dbCall.existing

----------------------------------------------------------------------------
(* Frame and provenance of truncateHistory.                                *)

\* queryJsonMultiTurn has called truncateHistory in this step.
TruncateHistoryStep ==
    tpc = "input" /\ tpc' = "done"

\* C34: a call of truncateHistory leaves the stored conversation history
\* with the same messages in the same order, and a result that differs
\* from the history is another array than the stored one.
Thm_C34_HistoryNotMutated ==
    [][TruncateHistoryStep =>
           /\ history' = history
           /\ truncatedHistory' =
                  truncateHistoryOnArrays(history, limits).result
           /\ truncatedHistory' # history =>
                  truncateHistoryOnArrays(history, limits).returned
                      # "history"]_vars

\* The fallback, which reverses a copy of the history, has run on a history
\* of the greatest length that reads differently backwards and whose
\* latest user message is not its last message.
Wit_C34_ReversedCopyOnly ==
    /\ tpc = "done"
    /\ truncateHistoryOnArrays(history, limits).returned = "literal"
    /\ truncateHistoryOnArrays(history, limits).arrays.copy # history
    /\ Len(history) = MaxHistory
    /\ truncatedHistory # <<history[Len(history)]>>

----------------------------------------------------------------------------
(* Invalid events in an SSE stream.                                        *)

SseDecoders ==
    {"parseOpenAISseStream", "parseGeminiSseStream"}

\* The payload of the event is not valid JSON: a frame that was cut off.
IsInvalidEvent(w) ==
    w.event.kind = "partial"

\* The stream without its invalid events.
ValidEvents(stream) ==
    SelectSeq(stream, LAMBDA w : ~IsInvalidEvent(w))

\* The text of the stream of the call with the lines of the invalid events
\* and the blank lines that end them taken out.
TextWithoutInvalidEvents ==
    StreamText(ValidEvents(arg.stream),
               arg.terminated
               \/ IsInvalidEvent(arg.stream[Len(arg.stream)]))

\* What the decoder of the call returns for a text.
Decoded(text) ==
    IF arg.fn = "parseOpenAISseStream" THEN parseOpenAISseStream(text)
    ELSE parseGeminiSseStream(text)

\* C35: in both SSE decoders the events whose payload is not valid JSON are
\* ignored: what the decoder returns for a stream that holds such events
\* (content or parts, and tokensUsed) is what it returns for the same stream
\* without them.
Thm_C35_InvalidEventIgnored ==
    /\ ppc = "done"
    /\ arg.fn \in SseDecoders
    /\ \E i \in 1..Len(arg.stream) : IsInvalidEvent(arg.stream[i])
    => ret = Decoded(TextWithoutInvalidEvents)

\* A cut-off frame came first, then an event with content and token usage,
\* and both of the latter were decoded.
Wit_C35_ValidEventAfterInvalid ==
    /\ ppc = "done"
    /\ arg.fn = "parseOpenAISseStream"
    /\ Len(arg.stream) > 1
    /\ IsInvalidEvent(arg.stream[1])
    /\ ret.content # <<>>
    /\ ret.tokensUsed # UndefinedNumber

----------------------------------------------------------------------------
(* Code fences in preprocessJsonResponse.                                  *)

\* The whole text is wrapped in one code fence: it begins with a fence,
\* ends with a fence, and holds no other.
IsWrappedInFence(text) ==
    /\ startsWithAt(text, 1, Fence)
    /\ indexOf(text, Fence, Len(Fence) + 1) = Len(text) - Len(Fence) + 1

\* A text with a code fence was preprocessed.
FencePreprocessed ==
    /\ HasReturned("preprocessJsonResponse")
    /\ includes(arg.text, Fence)

\* C36 (as stated): the code fence is stripped only when the whole trimmed
\* text is wrapped in one fence; a text that merely holds a fence somewhere
\* is scanned for JSON as it is.
Orig_C36_FenceStrippedOnlyWhenWrapping ==
    FencePreprocessed =>
        ret = IF IsWrappedInFence(trimString(arg.text))
                THEN extractFrom(stripCodeBlock(trimString(arg.text)),
                                 arg.allowArray)
                ELSE extractFrom(trimString(arg.text), arg.allowArray)

\* The messages of a list.
MessagesOf(list) ==
    {list[i] : i \in 1..Len(list)}

\* The history holds a message of the user.
HasUserMessage ==
    \E i \in 1..Len(history) : history[i].role = "user"

----------------------------------------------------------------------------
(* The session id and the claimed message ids of startSession.             *)

\* startSession has passed the resolution of the session id (lines
\* 1339-1352) and awaits the provider call of the init prompt.
SessionIdResolved ==
    spc = "query" /\ turn.kind = "init"

\* C38 (as stated): after the resolution step at the start of startSession,
\* session.memorySessionId is not null and equals the memory_session_id of
\* the session's database row, whatever the two values were before.
Orig_C38_SessionIdIsTheStoredOne ==
    SessionIdResolved =>
        /\ memorySessionId # "null"
        /\ memorySessionId = dbMemorySessionId

\* The part of C38 the code keeps: after the resolution step
\* session.memorySessionId is not null, and it equals the stored value
\* unless the row held NULL while the session held an id.
Aux_C38_NonNullAfterResolution ==
    SessionIdResolved =>
        /\ memorySessionId # "null"
        /\ memorySessionId = dbMemorySessionId
           \/ dbMemorySessionId = "null"

====
